---- MODULE Spec2Model ----
(***************************************************************************)
(* Model of the flash-card scheduling engine (src/core/scheduling.py):     *)
(* one planning run of generate_schedule_events over a session whose       *)
(* database already holds cards and scheduled events.                      *)
(*                                                                         *)
(* Dates are day ordinals, ordinal 0 being a Monday, so weekday(d) = d % 7 *)
(* as datetime.date.weekday() numbers it (0 = Monday).  A datetime is the  *)
(* number of minutes since ordinal 0, 00:00.  An Optional value is the     *)
(* empty tuple (None) or a one-element tuple.  A dict is the sequence of   *)
(* its <<key, value>> items in insertion order.                            *)
(***************************************************************************)
EXTENDS Integers, Sequences, FiniteSets, TLC

(* ------------------------------ bounds --------------------------------- *)

\* Largest times_per_week of the policies enumerated.
MaxTimesPerWeek == 2

\* random.randint(lo, hi) is explored on the DrawWidth lowest values of
\* lo..hi and on hi.
DrawWidth == 1

(* ------------------------- program constants --------------------------- *)

MinutesPerHour == 60
HoursPerDay == 24
DaysPerWeek == 7
RandomAttempts == 3
MinStartOffset == 5
MaxStartOffset == 25

MinutesPerDay == HoursPerDay * MinutesPerHour

autoflush == FALSE

(* ------------------------------ helpers -------------------------------- *)

None == <<>>
Some(v) == <<v>>

Range(s) == {s[i] : i \in DOMAIN s}

RECURSIVE SumSeq(_)
SumSeq(s) == IF s = <<>> THEN 0 ELSE s[1] + SumSeq(Tail(s))

RECURSIVE SetToSeq(_)
SetToSeq(S) ==
    IF S = {} THEN <<>>
    ELSE LET m == CHOOSE x \in S : \A y \in S : x <= y
         IN <<m>> \o SetToSeq(S \ {m})

\* Python dict: d[k] = v keeps the position of an existing key.
DictHas(d, k) == \E i \in DOMAIN d : d[i][1] = k
DictGet(d, k) == d[CHOOSE i \in DOMAIN d : d[i][1] = k][2]
DictSet(d, k, v) ==
    IF DictHas(d, k)
    THEN [i \in DOMAIN d |-> IF d[i][1] = k THEN <<k, v>> ELSE d[i]]
    ELSE Append(d, <<k, v>>)
DictKeys(d) == [i \in DOMAIN d |-> d[i][1]]
DictValues(d) == [i \in DOMAIN d |-> d[i][2]]

\* dict(zip(keys, values)) and {k: v for k in keys}
RECURSIVE DictZip(_, _, _)
DictZip(d, keys, values) ==
    IF keys = <<>> \/ values = <<>> THEN d
    ELSE DictZip(DictSet(d, keys[1], values[1]), Tail(keys), Tail(values))

\* random.randint(lo, hi): both ends included.
RandInt(lo, hi) == {x \in lo..hi : x < lo + DrawWidth \/ x = hi}

(* ----------------------------- calendar -------------------------------- *)

DayNames == <<"Mon", "Tue", "Wed", "Thu", "Fri", "Sat", "Sun">>

weekday(date) == date % DaysPerWeek

Combine(date, hour) == date * MinutesPerDay + hour * MinutesPerHour

DateOf(dt) == dt \div MinutesPerDay
TimeOf(dt) == dt % MinutesPerDay

\* Variant: the current day numbered as isoweekday() numbers it (1 = Monday).
get_days_until_isoweekday(from_date, day_name) ==
    LET target_day == (CHOOSE i \in DOMAIN DayNames : DayNames[i] = day_name) - 1
        current_day == weekday(from_date) + 1
        days_ahead == target_day - current_day
    IN IF days_ahead <= 0 THEN days_ahead + DaysPerWeek ELSE days_ahead

get_days_until(from_date, day_name) ==
    LET target_day == (CHOOSE i \in DOMAIN DayNames : DayNames[i] = day_name) - 1
        current_day == weekday(from_date)
        days_ahead == target_day - current_day
    IN IF days_ahead <= 0 THEN days_ahead + DaysPerWeek ELSE days_ahead

get_next_occurrence_dates(distribution, today_) ==
    LET keys == DictKeys(distribution)
    IN DictZip(<<>>, keys,
               [i \in DOMAIN keys |-> today_ + get_days_until(today_, keys[i])])

(* --------------------------- the data model ---------------------------- *)

TIMES_PER_WEEK == "times_per_week"
TIMES_PER_DAY == "times_per_day"
FIXED_INTERVAL == "fixed_interval"

\* A frequency_mode value that is none of the three members of FrequencyMode.
UNKNOWN_MODE == "unknown"

GLOBAL == "global"
CATEGORY == "category"
CARD == "card"

PENDING == "pending"
COMPLETED == "completed"
IGNORED == "ignored"

ScheduleUuid == "S1"
OtherScheduleUuid == "S0"

allowed_days_of(schedule_) == schedule_.allowed_days

\* Variant: the end hour is counted as part of the window.
calculate_minutes_in_schedule_window_inclusive(schedule_) ==
    (schedule_.end_hour - schedule_.start_hour + 1) * MinutesPerHour

calculate_minutes_in_schedule_window(schedule_) ==
    (schedule_.end_hour - schedule_.start_hour) * MinutesPerHour

(* ------------------------- day distributions --------------------------- *)

\* Variant: the counts are zipped in reverse order.
distribute_ordered_occurrences_reversed(schedule_, daily_occurrences) ==
    LET allowed_days == allowed_days_of(schedule_)
        num_allowed_days == Len(allowed_days)
        n == Len(daily_occurrences)
    IN IF n # num_allowed_days
       THEN [raised |-> TRUE, distribution |-> <<>>]
       ELSE [raised |-> FALSE,
             distribution |-> DictZip(<<>>, allowed_days,
                                      [i \in 1..n |-> daily_occurrences[n + 1 - i]])]

\* Variant: the lengths are not compared, zip stops at the shorter list.
distribute_ordered_occurrences_unchecked(schedule_, daily_occurrences) ==
    [raised |-> FALSE,
     distribution |-> DictZip(<<>>, allowed_days_of(schedule_), daily_occurrences)]

distribute_ordered_occurrences(schedule_, daily_occurrences) ==
    LET allowed_days == allowed_days_of(schedule_)
        num_allowed_days == Len(allowed_days)
    IN IF Len(daily_occurrences) # num_allowed_days
       THEN [raised |-> TRUE, distribution |-> <<>>]
       ELSE [raised |-> FALSE,
             distribution |-> DictZip(<<>>, allowed_days, daily_occurrences)]

RECURSIVE SetAll(_, _, _)
SetAll(d, keys, v) ==
    IF keys = <<>> THEN d ELSE SetAll(DictSet(d, keys[1], v), Tail(keys), v)

RECURSIVE DistributeRemaining(_, _, _)
DistributeRemaining(d, allowed_days, remaining) ==
    IF remaining <= 0 THEN {d}
    ELSE UNION {DistributeRemaining(
                    DictSet(d, allowed_days[i], DictGet(d, allowed_days[i]) + 1),
                    allowed_days, remaining - 1) : i \in DOMAIN allowed_days}

\* Variant: the days are drawn with replacement (random.choices).
distribute_occurrences_with_replacement(schedule_, total_occurrences) ==
    LET allowed_days == allowed_days_of(schedule_)
        num_allowed_days == Len(allowed_days)
        zeros == SetAll(<<>>, allowed_days, 0)
    IN IF total_occurrences <= num_allowed_days
       THEN {SetAll(zeros, [i \in 1..total_occurrences |-> allowed_days[pick[i]]], 1) :
                pick \in [1..total_occurrences -> DOMAIN allowed_days]}
       ELSE DistributeRemaining(SetAll(zeros, allowed_days, 1), allowed_days,
                                total_occurrences - num_allowed_days)

\* Variant: the occurrences already given to each day are not deducted.
distribute_occurrences_no_deduction(schedule_, total_occurrences) ==
    LET allowed_days == allowed_days_of(schedule_)
        num_allowed_days == Len(allowed_days)
        zeros == SetAll(<<>>, allowed_days, 0)
    IN IF total_occurrences <= num_allowed_days
       THEN {SetAll(zeros, [i \in 1..Len(SetToSeq(P)) |-> allowed_days[SetToSeq(P)[i]]], 1) :
                P \in {Q \in SUBSET (DOMAIN allowed_days) :
                          Cardinality(Q) = total_occurrences}}
       ELSE DistributeRemaining(SetAll(zeros, allowed_days, 1), allowed_days,
                                total_occurrences)

\* The set of distributions the random draws can produce.
distribute_occurrences(schedule_, total_occurrences) ==
    LET allowed_days == allowed_days_of(schedule_)
        num_allowed_days == Len(allowed_days)
        zeros == SetAll(<<>>, allowed_days, 0)
    IN IF total_occurrences <= num_allowed_days
       THEN {SetAll(zeros, [i \in 1..Len(SetToSeq(P)) |-> allowed_days[SetToSeq(P)[i]]], 1) :
                P \in {Q \in SUBSET (DOMAIN allowed_days) :
                          Cardinality(Q) = total_occurrences}}
       ELSE DistributeRemaining(SetAll(zeros, allowed_days, 1), allowed_days,
                                total_occurrences - num_allowed_days)

\* Variant: every allowed day is given at least one occurrence.
distribute_fixed_daily_occurrences_at_least_one(schedule_, times_per_day) ==
    LET allowed_days == allowed_days_of(schedule_)
    IN [i \in DOMAIN allowed_days |->
            <<allowed_days[i], IF times_per_day < 1 THEN 1 ELSE times_per_day>>]

distribute_fixed_daily_occurrences(schedule_, times_per_day) ==
    SetAll(<<>>, allowed_days_of(schedule_), times_per_day)

(* --------------------------- occurrence totals ------------------------- *)

\* Variant: without the final else, an unknown mode returns the initial
\* totals.
calculate_total_events_and_daily_counts_no_else(schedule_) ==
    LET allowed_days == allowed_days_of(schedule_)
        num_allowed_days == Len(allowed_days)
        Raise == [raised |-> TRUE, amount_of_events |-> 0, times_per_days |-> None]
        Ret(a, t) == [raised |-> FALSE, amount_of_events |-> a, times_per_days |-> t]
    IN IF schedule_.frequency_mode = TIMES_PER_WEEK
       THEN IF schedule_.times_per_week = None
            THEN {Raise}
            ELSE {Ret(schedule_.times_per_week[1], None)}
       ELSE IF schedule_.frequency_mode = TIMES_PER_DAY
       THEN IF schedule_.min_times_per_day = None \/ schedule_.max_times_per_day = None
            THEN {Raise}
            ELSE LET min_times == schedule_.min_times_per_day[1]
                     max_times == schedule_.max_times_per_day[1]
                 IN IF min_times = max_times
                    THEN {Ret(min_times * num_allowed_days, None)}
                    ELSE {Ret(SumSeq(l), Some(l)) :
                            l \in [DOMAIN allowed_days -> RandInt(min_times, max_times)]}
       ELSE IF schedule_.frequency_mode = FIXED_INTERVAL
       THEN IF schedule_.interval_minutes = None
            THEN {Raise}
            ELSE LET minutes_in_window == calculate_minutes_in_schedule_window(schedule_)
                     events_per_day == minutes_in_window \div schedule_.interval_minutes[1]
                 IN {Ret(events_per_day * num_allowed_days, None)}
       ELSE {Ret(0, None)}

\* The set of outcomes: an error, or (amount_of_events, times_per_days).
calculate_total_events_and_daily_counts(schedule_) ==
    LET allowed_days == allowed_days_of(schedule_)
        num_allowed_days == Len(allowed_days)
        Raise == [raised |-> TRUE, amount_of_events |-> 0, times_per_days |-> None]
        Ret(a, t) == [raised |-> FALSE, amount_of_events |-> a, times_per_days |-> t]
    IN IF schedule_.frequency_mode = TIMES_PER_WEEK
       THEN IF schedule_.times_per_week = None
            THEN {Raise}
            ELSE {Ret(schedule_.times_per_week[1], None)}
       ELSE IF schedule_.frequency_mode = TIMES_PER_DAY
       THEN IF schedule_.min_times_per_day = None \/ schedule_.max_times_per_day = None
            THEN {Raise}
            ELSE LET min_times == schedule_.min_times_per_day[1]
                     max_times == schedule_.max_times_per_day[1]
                 IN IF min_times = max_times
                    THEN {Ret(min_times * num_allowed_days, None)}
                    ELSE {Ret(SumSeq(l), Some(l)) :
                            l \in [DOMAIN allowed_days -> RandInt(min_times, max_times)]}
       ELSE IF schedule_.frequency_mode = FIXED_INTERVAL
       THEN IF schedule_.interval_minutes = None
            THEN {Raise}
            ELSE LET minutes_in_window == calculate_minutes_in_schedule_window(schedule_)
                     events_per_day == minutes_in_window \div schedule_.interval_minutes[1]
                 IN {Ret(events_per_day * num_allowed_days, None)}
       ELSE {Raise}

\* Variant: a fixed daily count is given the week's total, undivided.
determine_weekly_event_distribution_undivided(schedule_, amount_of_events_, times_per_days_) ==
    LET allowed_days == allowed_days_of(schedule_)
        num_allowed_days == Len(allowed_days)
        Ok(d) == [raised |-> FALSE, distribution |-> d]
    IN IF schedule_.frequency_mode = TIMES_PER_WEEK
       THEN {Ok(d) : d \in distribute_occurrences(schedule_, amount_of_events_)}
       ELSE IF schedule_.frequency_mode = TIMES_PER_DAY
       THEN IF times_per_days_ # None
            THEN {distribute_ordered_occurrences(schedule_, times_per_days_[1])}
            ELSE {Ok(distribute_fixed_daily_occurrences(schedule_, amount_of_events_))}
       ELSE {Ok(distribute_fixed_daily_occurrences(
                        schedule_, amount_of_events_ \div num_allowed_days))}

\* The set of outcomes: an error, or a distribution.
determine_weekly_event_distribution(schedule_, amount_of_events_, times_per_days_) ==
    LET allowed_days == allowed_days_of(schedule_)
        num_allowed_days == Len(allowed_days)
        Ok(d) == [raised |-> FALSE, distribution |-> d]
    IN IF schedule_.frequency_mode = TIMES_PER_WEEK
       THEN {Ok(d) : d \in distribute_occurrences(schedule_, amount_of_events_)}
       ELSE IF schedule_.frequency_mode = TIMES_PER_DAY
       THEN IF times_per_days_ # None
            THEN {distribute_ordered_occurrences(schedule_, times_per_days_[1])}
            ELSE {Ok(distribute_fixed_daily_occurrences(
                        schedule_, amount_of_events_ \div num_allowed_days))}
       ELSE {Ok(distribute_fixed_daily_occurrences(
                        schedule_, amount_of_events_ \div num_allowed_days))}

(* -------------------------- weighted selection ------------------------- *)

\* FlashCard.calculate_weight fails when the card's category does not resolve.
calculate_weight_fails(cards_, card) == ~cards_[card].has_category

\* Variant: as many draws as there are cards (k=len(cards)).
select_weighted_cards_k_len(cards_, items, count) ==
    IF items = <<>>
    THEN {[raised |-> FALSE, selected |-> <<>>]}
    ELSE IF \E i \in DOMAIN items : calculate_weight_fails(cards_, items[i])
    THEN {[raised |-> TRUE, selected |-> <<>>]}
    ELSE {[raised |-> FALSE, selected |-> [k \in 1..Len(items) |-> items[idx[k]]]] :
            idx \in [1..Len(items) -> DOMAIN items]}

\* Variant: the weights are not computed before the draw.
select_weighted_cards_unweighted(cards_, items, count) ==
    IF items = <<>>
    THEN {[raised |-> FALSE, selected |-> <<>>]}
    ELSE {[raised |-> FALSE, selected |-> [k \in 1..count |-> items[idx[k]]]] :
            idx \in [1..count -> DOMAIN items]}

\* The set of outcomes: an error, or the list of selected cards.
select_weighted_cards(cards_, items, count) ==
    IF items = <<>>
    THEN {[raised |-> FALSE, selected |-> <<>>]}
    ELSE IF \E i \in DOMAIN items : calculate_weight_fails(cards_, items[i])
    THEN {[raised |-> TRUE, selected |-> <<>>]}
    ELSE {[raised |-> FALSE, selected |-> [k \in 1..count |-> items[idx[k]]]] :
            idx \in [1..count -> DOMAIN items]}

(* ------------------------------ the session ---------------------------- *)

\* Variant: the category filter is not applied.
get_flash_cards_any_category(cards_, category_uuid) ==
    SetToSeq({c \in DOMAIN cards_ : cards_[c].active})

\* select(FlashCard).where(active [, category_uuid]) in primary-key order.
get_flash_cards(cards_, category_uuid) ==
    SetToSeq({c \in DOMAIN cards_ :
                /\ cards_[c].active
                /\ category_uuid = None \/ cards_[c].category_uuid = category_uuid[1]})

\* session.get(FlashCard, uuid)
session_get(cards_, uuid) ==
    IF uuid # None /\ uuid[1] \in DOMAIN cards_ THEN Some(uuid[1]) ELSE None

\* The rows a query of the session sees: pending objects only after a flush.
QueryRows(db_, pending_) ==
    IF autoflush THEN db_ \cup Range(pending_) ELSE db_

\* ScheduledEvent.is_time_slot_available: exact match on scheduled_datetime.
is_time_slot_available(db_, pending_, proposed_time) ==
    ~\E e \in QueryRows(db_, pending_) : e.scheduled_datetime = proposed_time

\* Variant: the event is created as already completed.
ScheduledEvent_completed(uuid, schedule_, card, proposed_time) ==
    [uuid |-> uuid,
     schedule_uuid |-> schedule_.uuid,
     flash_card_uuid |-> card,
     scheduled_datetime |-> proposed_time,
     status |-> COMPLETED]

ScheduledEvent(uuid, schedule_, card, proposed_time) ==
    [uuid |-> uuid,
     schedule_uuid |-> schedule_.uuid,
     flash_card_uuid |-> card,
     scheduled_datetime |-> proposed_time,
     status |-> PENDING]

(* ---------------------------- slot placement --------------------------- *)

Found(t, checks) == [found |-> TRUE, scheduled_datetime |-> t, checks |-> checks]
NoSlot(checks) == [found |-> FALSE, scheduled_datetime |-> 0, checks |-> checks]

RECURSIVE FixedIntervalScan(_, _, _, _, _, _)
FixedIntervalScan(db_, pending_, schedule_, base_time, current_minute, checks) ==
    IF current_minute < calculate_minutes_in_schedule_window(schedule_)
    THEN LET proposed_time == base_time + current_minute
         IN IF is_time_slot_available(db_, pending_, proposed_time)
            THEN Found(proposed_time, Append(checks, proposed_time))
            ELSE IF schedule_.interval_minutes # None
            THEN FixedIntervalScan(db_, pending_, schedule_, base_time,
                                   current_minute + schedule_.interval_minutes[1],
                                   Append(checks, proposed_time))
            ELSE NoSlot(Append(checks, proposed_time))
    ELSE NoSlot(checks)

\* Variant: the scan starts anywhere from the window's first minute.
schedule_fixed_interval_event_from_window_start(db_, pending_, schedule_, target_date_) ==
    LET base_time == Combine(target_date_, schedule_.start_hour)
    IN {FixedIntervalScan(db_, pending_, schedule_, base_time, current_minute, <<>>) :
            current_minute \in RandInt(0, MaxStartOffset)}

\* The set of outcomes of one fixed-interval slot search.
schedule_fixed_interval_event(db_, pending_, schedule_, target_date_) ==
    LET base_time == Combine(target_date_, schedule_.start_hour)
    IN {FixedIntervalScan(db_, pending_, schedule_, base_time, current_minute, <<>>) :
            current_minute \in RandInt(MinStartOffset, MaxStartOffset)}

RECURSIVE RandomTimeTry(_, _, _, _, _, _)
RandomTimeTry(db_, pending_, schedule_, target_date_, attempt, checks) ==
    IF attempt >= RandomAttempts THEN {NoSlot(checks)}
    ELSE UNION {
        LET proposed_time == Combine(target_date_, schedule_.start_hour) + random_minute
        IN IF is_time_slot_available(db_, pending_, proposed_time)
           THEN {Found(proposed_time, Append(checks, proposed_time))}
           ELSE RandomTimeTry(db_, pending_, schedule_, target_date_, attempt + 1,
                              Append(checks, proposed_time)) :
        random_minute \in RandInt(0, calculate_minutes_in_schedule_window(schedule_) - 1)}

\* Variant: the times are proposed on the day after the target date.
schedule_random_time_event_next_day(db_, pending_, schedule_, target_date_) ==
    RandomTimeTry(db_, pending_, schedule_, target_date_ + 1, 0, <<>>)

\* Variant: the first of the three attempts is left out.
schedule_random_time_event_from_one(db_, pending_, schedule_, target_date_) ==
    RandomTimeTry(db_, pending_, schedule_, target_date_, 1, <<>>)

\* The set of outcomes of one random-time slot search.
schedule_random_time_event(db_, pending_, schedule_, target_date_) ==
    RandomTimeTry(db_, pending_, schedule_, target_date_, 0, <<>>)

\* "try every 15 minutes" for the modes without an interval.
DefaultInterval == 15

RECURSIVE CreateScan(_, _, _, _, _, _, _)
CreateScan(db_, pending_, base_time, interval, attempts, i, checks) ==
    IF i < attempts
    THEN LET proposed_time == base_time + i * interval
         IN IF is_time_slot_available(db_, pending_, proposed_time)
            THEN Found(proposed_time, Append(checks, proposed_time))
            ELSE CreateScan(db_, pending_, base_time, interval, attempts, i + 1,
                            Append(checks, proposed_time))
    ELSE NoSlot(checks)

\* The set of outcomes of create_scheduled_event: an event, or None.
create_scheduled_event(db_, pending_, schedule_, target_date_arg, today_) ==
    LET target_date_ == IF target_date_arg # None THEN target_date_arg[1] ELSE today_
        allowed_days == Range(allowed_days_of(schedule_))
        minutes_in_window == calculate_minutes_in_schedule_window(schedule_)
    IN IF DayNames[weekday(target_date_) + 1] \notin allowed_days
       THEN {NoSlot(<<>>)}
       ELSE IF schedule_.frequency_mode = FIXED_INTERVAL
               /\ schedule_.interval_minutes = None
       THEN {NoSlot(<<>>)}
       ELSE LET interval == IF schedule_.frequency_mode = FIXED_INTERVAL
                            THEN schedule_.interval_minutes[1] ELSE DefaultInterval
                attempts == minutes_in_window \div interval
            IN {CreateScan(db_, pending_, Combine(target_date_, random_hour),
                           interval, attempts, 0, <<>>) :
                    random_hour \in RandInt(schedule_.start_hour, schedule_.end_hour - 1)}

scheduler_func(db_, pending_, schedule_, target_date_) ==
    IF schedule_.frequency_mode = FIXED_INTERVAL
    THEN schedule_fixed_interval_event(db_, pending_, schedule_, target_date_)
    ELSE schedule_random_time_event(db_, pending_, schedule_, target_date_)

(* ------------------------------- state --------------------------------- *)

VARIABLES
    today,                  \* datetime.date.today(), a day ordinal
    cards,                  \* the flash_cards table: uuid -> row
    db,                     \* the scheduled_events rows in the database
    pending,                \* session.new: objects added and not flushed
    schedule,               \* the policy being planned
    pc,                     \* position in generate_schedule_events
    result,                 \* what generate_schedule_events returned or raised
    valid_cards,            \* generate_schedule_events.valid_cards
    amount_of_events,       \* generate_schedule_events.amount_of_events
    times_per_days,         \* generate_schedule_events.times_per_days
    selected_cards,         \* generate_schedule_events.selected_cards
    distribution,           \* generate_schedule_events.distribution
    day_dates,              \* schedule_events_from_distribution.day_dates
    day_pos,                \* position of the loop over distribution.items()
    card_index,             \* schedule_events_from_distribution.card_index
    scheduled_events,       \* schedule_events_from_distribution.scheduled_events
    cards_to_schedule,      \* schedule_events_for_day.cards_to_schedule
    target_date,            \* schedule_events_for_day.target_date
    card_pos,               \* position of the loop over cards_to_schedule
    events_created_for_day, \* schedule_events_for_day.events_created_for_day
    events_created_count,   \* schedule_events_for_day.events_created_count
    day_attempts,           \* history: slot searches made for the day
    last_search,            \* history: outcome of the latest slot search
    found_total,            \* history: successful slot searches of the run
    search_count,           \* history: slot searches made in the run
    runs,                   \* concurrent planning runs, each with its own session
    schedules,              \* the schedules table: rows in primary-key order
    all_schedules,          \* generate_events_from_schedules.all_schedules
    schedule_pos,           \* position of the loop over all_schedules
    total_cards_processed,  \* generate_events_from_schedules.total_cards_processed
    pass_result,            \* what generate_events_from_schedules returned or raised
    entered,                \* history: uuids of the policies planning was begun for
    planned                 \* history: the runs that returned, in order

\* The caller's state, which a run of generate_schedule_events leaves alone.
pass_vars == <<schedules, all_schedules, schedule_pos, total_cards_processed,
               pass_result, entered, planned>>

vars == <<today, cards, db, pending, schedule, pc, result, valid_cards,
          amount_of_events, times_per_days, selected_cards, distribution,
          day_dates, day_pos, card_index, scheduled_events, cards_to_schedule,
          target_date, card_pos, events_created_for_day, events_created_count,
          day_attempts, last_search, found_total, search_count, runs,
          pass_vars>>

inputs == <<today, cards, db, schedule, runs, pass_vars>>
plan_vars == <<valid_cards, amount_of_events, times_per_days, selected_cards,
               distribution, day_dates>>
dist_vars == <<day_pos, card_index, scheduled_events>>
day_vars == <<cards_to_schedule, target_date, card_pos, events_created_for_day,
              events_created_count, day_attempts, last_search>>

(* ------------------------------- inputs -------------------------------- *)

Categories == {"A", "B"}

Row(active, category_uuid, has_category) ==
    [active |-> active, category_uuid |-> category_uuid, has_category |-> has_category]

\* Three databases: two active cards and an inactive one, every category
\* resolving; an active card whose category does not resolve; no active card.
CardTables ==
    { <<Row(TRUE, "A", TRUE), Row(TRUE, "B", TRUE), Row(FALSE, "A", TRUE)>>,
      <<Row(FALSE, "A", TRUE), Row(TRUE, "B", FALSE)>>,
      <<Row(FALSE, "A", TRUE)>> }

ScopeChoices ==
    {[scope |-> GLOBAL, category_uuid |-> None, flash_card_uuid |-> None]}
    \cup {[scope |-> CATEGORY, category_uuid |-> Some(c), flash_card_uuid |-> None] :
            c \in Categories}
    \cup {[scope |-> CARD, category_uuid |-> None, flash_card_uuid |-> Some(3)]}

DayPool == {"Mon", "Thu"}

\* Non-empty lists of distinct allowed days.
AllowedDayLists ==
    {<<d>> : d \in DayPool}
    \cup {<<d, e>> : <<d, e>> \in {p \in DayPool \X DayPool : p[1] # p[2]}}

Windows == {[start_hour |-> 9, end_hour |-> 10]}

Intervals == {30, 60, 90}

\* min_times_per_day <= max_times_per_day, both at least 1.
TimesPerDayRanges == {<<1, 1>>, <<2, 2>>, <<1, 2>>}

Frequency(mode, tpw, mn, mx, iv) ==
    [frequency_mode |-> mode, times_per_week |-> tpw, min_times_per_day |-> mn,
     max_times_per_day |-> mx, interval_minutes |-> iv]

\* The parameter of the active mode may be absent, and the mode may be none
\* of the three: the engine tests for both.
FrequencyChoices ==
    {Frequency(UNKNOWN_MODE, None, None, None, None)} \cup
    {Frequency(TIMES_PER_WEEK, t, None, None, None) :
        t \in {None} \cup {Some(k) : k \in 1..MaxTimesPerWeek}}
    \cup {Frequency(TIMES_PER_DAY, None, mn, mx, None) :
            <<mn, mx>> \in {<<None, Some(1)>>, <<Some(1), None>>}
                \cup {<<Some(q[1]), Some(q[2])>> : q \in TimesPerDayRanges}}
    \cup {Frequency(FIXED_INTERVAL, None, None, None, iv) :
            iv \in {None} \cup {Some(i) : i \in Intervals}}

Schedules ==
    {[uuid |-> ScheduleUuid,
      scope |-> sc.scope,
      category_uuid |-> sc.category_uuid,
      flash_card_uuid |-> sc.flash_card_uuid,
      allowed_days |-> days,
      start_hour |-> w.start_hour,
      end_hour |-> w.end_hour,
      frequency_mode |-> f.frequency_mode,
      times_per_week |-> f.times_per_week,
      min_times_per_day |-> f.min_times_per_day,
      max_times_per_day |-> f.max_times_per_day,
      interval_minutes |-> f.interval_minutes] :
        sc \in ScopeChoices, days \in AllowedDayLists, w \in Windows,
        f \in FrequencyChoices}

\* The minutes of the window a slot search of the policy can probe.
ProbeMinutes(schedule_) ==
    LET window == calculate_minutes_in_schedule_window(schedule_)
    IN IF schedule_.frequency_mode = FIXED_INTERVAL
       THEN {m \in 0..(window - 1) :
                \E o \in RandInt(MinStartOffset, MaxStartOffset) :
                    IF schedule_.interval_minutes = None THEN m = o
                    ELSE m >= o /\ (m - o) % schedule_.interval_minutes[1] = 0}
       ELSE RandInt(0, window - 1)

Statuses == <<PENDING, COMPLETED, IGNORED>>

\* Events of another policy occupying the window up to some minute, on every
\* date of the coming week.
ExistingEvents(schedule_, today_, upto) ==
    {[uuid |-> 0 - (d * MinutesPerDay + m),
      schedule_uuid |-> OtherScheduleUuid,
      flash_card_uuid |-> 1,
      scheduled_datetime |-> Combine(d, schedule_.start_hour) + m,
      status |-> Statuses[(m % 3) + 1]] :
        d \in today_..(today_ + DaysPerWeek),
        m \in {x \in ProbeMinutes(schedule_) : x <= upto}}

NoResult == [kind |-> "none", value |-> <<>>]
Returned(v) == [kind |-> "returned", value |-> v]
Raised == [kind |-> "raised", value |-> <<>>]

\* generate_events_from_schedules is not running.
NoPass ==
    /\ schedules = <<>>
    /\ all_schedules = <<>>
    /\ schedule_pos = 0
    /\ total_cards_processed = 0
    /\ pass_result = NoResult
    /\ entered = <<>>
    /\ planned = <<>>

Init ==
    /\ today \in 0..(DaysPerWeek - 1)
    /\ cards \in CardTables
    /\ schedule \in Schedules
    /\ db \in {ExistingEvents(schedule, today, upto) :
                upto \in {0 - 1} \cup ProbeMinutes(schedule)}
    /\ pending = <<>>
    /\ pc = "start"
    /\ result = NoResult
    /\ valid_cards = <<>>
    /\ amount_of_events = 0
    /\ times_per_days = None
    /\ selected_cards = <<>>
    /\ distribution = <<>>
    /\ day_dates = <<>>
    /\ day_pos = 1
    /\ card_index = 0
    /\ scheduled_events = <<>>
    /\ cards_to_schedule = <<>>
    /\ target_date = 0
    /\ card_pos = 1
    /\ events_created_for_day = <<>>
    /\ events_created_count = 0
    /\ day_attempts = 0
    /\ last_search = NoSlot(<<>>)
    /\ found_total = 0
    /\ search_count = 0
    /\ runs = <<>>
    /\ NoPass

(* ------------------------------ actions -------------------------------- *)

\* generate_schedule_events up to the selection: candidates, totals, and the
\* two empty returns.
GenerateStart ==
    /\ pc = "start"
    /\ LET category_uuid == IF schedule.scope = CATEGORY
                            THEN schedule.category_uuid ELSE None
           found_cards == IF schedule.scope = CARD
                          THEN <<session_get(cards, schedule.flash_card_uuid)>>
                          ELSE LET l == get_flash_cards(cards, category_uuid)
                               IN [i \in DOMAIN l |-> Some(l[i])]
           valid == SelectSeq(found_cards, LAMBDA c : c # None)
       IN \E t \in calculate_total_events_and_daily_counts(schedule) :
            IF t.raised
            THEN /\ pc' = "raised"
                 /\ result' = Raised
                 /\ UNCHANGED <<valid_cards, amount_of_events, times_per_days>>
            ELSE /\ amount_of_events' = t.amount_of_events
                 /\ times_per_days' = t.times_per_days
                 /\ IF found_cards = <<>> \/ valid = <<>>
                    THEN /\ pc' = "done"
                         /\ result' = Returned(<<>>)
                         /\ UNCHANGED valid_cards
                    ELSE /\ pc' = "select"
                         /\ valid_cards' = [i \in DOMAIN valid |-> valid[i][1]]
                         /\ UNCHANGED result
    /\ UNCHANGED <<inputs, pending, selected_cards, distribution, day_dates,
                   dist_vars, day_vars, found_total, search_count>>

\* selected_cards = select_weighted_cards(valid_cards, amount_of_events)
SelectCards ==
    /\ pc = "select"
    /\ \E r \in select_weighted_cards(cards, valid_cards, amount_of_events) :
         IF r.raised
         THEN /\ pc' = "raised"
              /\ result' = Raised
              /\ UNCHANGED selected_cards
         ELSE /\ pc' = "distribute"
              /\ selected_cards' = r.selected
              /\ UNCHANGED result
    /\ UNCHANGED <<inputs, pending, valid_cards, amount_of_events, times_per_days,
                   distribution, day_dates, dist_vars, day_vars, found_total,
                   search_count>>

\* determine_weekly_event_distribution, then the entry of
\* schedule_events_from_distribution.
Distribute ==
    /\ pc = "distribute"
    /\ \E r \in determine_weekly_event_distribution(schedule, amount_of_events,
                                                    times_per_days) :
         IF r.raised
         THEN /\ pc' = "raised"
              /\ result' = Raised
              /\ UNCHANGED <<distribution, day_dates>>
         ELSE /\ pc' = "day"
              /\ distribution' = r.distribution
              /\ day_dates' = get_next_occurrence_dates(r.distribution, today)
              /\ UNCHANGED result
    /\ day_pos' = 1
    /\ card_index' = 0
    /\ scheduled_events' = <<>>
    /\ UNCHANGED <<inputs, pending, valid_cards, amount_of_events, times_per_days,
                   selected_cards, day_vars, found_total, search_count>>

\* Variant: the day is given one card more than its count.
BeginDay_one_more ==
    /\ pc = "day"
    /\ day_pos <= Len(distribution)
    /\ LET day_name == distribution[day_pos][1]
           count == distribution[day_pos][2]
           total_cards == Len(selected_cards)
       IN IF count <= 0
          THEN /\ day_pos' = day_pos + 1
               /\ UNCHANGED <<pc, day_vars>>
          ELSE /\ pc' = "card"
               /\ target_date' = DictGet(day_dates, day_name)
               /\ cards_to_schedule' =
                    [i \in 1..(count + 1) |->
                        selected_cards[((card_index + (i - 1)) % total_cards) + 1]]
               /\ card_pos' = 1
               /\ events_created_for_day' = <<>>
               /\ events_created_count' = 0
               /\ day_attempts' = 0
               /\ last_search' = NoSlot(<<>>)
               /\ UNCHANGED day_pos
    /\ UNCHANGED <<inputs, pending, result, plan_vars, card_index, scheduled_events,
                   found_total, search_count>>

\* One iteration head of "for day_name, count in distribution.items()":
\* a day without occurrences is passed over, otherwise the day's cards are
\* taken from the cursor on and schedule_events_for_day is entered.
BeginDay ==
    /\ pc = "day"
    /\ day_pos <= Len(distribution)
    /\ LET day_name == distribution[day_pos][1]
           count == distribution[day_pos][2]
           total_cards == Len(selected_cards)
       IN IF count <= 0
          THEN /\ day_pos' = day_pos + 1
               /\ UNCHANGED <<pc, day_vars>>
          ELSE /\ pc' = "card"
               /\ target_date' = DictGet(day_dates, day_name)
               /\ cards_to_schedule' =
                    [i \in 1..count |->
                        selected_cards[((card_index + (i - 1)) % total_cards) + 1]]
               /\ card_pos' = 1
               /\ events_created_for_day' = <<>>
               /\ events_created_count' = 0
               /\ day_attempts' = 0
               /\ last_search' = NoSlot(<<>>)
               /\ UNCHANGED day_pos
    /\ UNCHANGED <<inputs, pending, result, plan_vars, card_index, scheduled_events,
                   found_total, search_count>>

\* Variant: a card without a slot is passed over and the loop goes on.
ScheduleCard_continue ==
    /\ pc = "card"
    /\ card_pos <= Len(cards_to_schedule)
    /\ \E r \in scheduler_func(db, pending, schedule, target_date) :
         /\ day_attempts' = day_attempts + 1
         /\ search_count' = search_count + 1
         /\ last_search' = r
         /\ card_pos' = card_pos + 1
         /\ pc' = IF card_pos = Len(cards_to_schedule) THEN "day_end" ELSE "card"
         /\ IF r.found
            THEN LET new_event == ScheduledEvent(found_total + 1, schedule,
                                                 cards_to_schedule[card_pos],
                                                 r.scheduled_datetime)
                 IN /\ events_created_for_day' = Append(events_created_for_day, new_event)
                    /\ pending' = Append(pending, new_event)
                    /\ events_created_count' = events_created_count + 1
                    /\ found_total' = found_total + 1
            ELSE UNCHANGED <<events_created_for_day, pending, events_created_count,
                             found_total>>
    /\ UNCHANGED <<inputs, result, plan_vars, dist_vars, cards_to_schedule, target_date>>

\* Variant: a card without a slot is tried again.
ScheduleCard_retry ==
    /\ pc = "card"
    /\ card_pos <= Len(cards_to_schedule)
    /\ \E r \in scheduler_func(db, pending, schedule, target_date) :
         /\ day_attempts' = day_attempts + 1
         /\ search_count' = search_count + 1
         /\ last_search' = r
         /\ IF r.found
            THEN LET new_event == ScheduledEvent(found_total + 1, schedule,
                                                 cards_to_schedule[card_pos],
                                                 r.scheduled_datetime)
                 IN /\ events_created_for_day' = Append(events_created_for_day, new_event)
                    /\ pending' = Append(pending, new_event)
                    /\ events_created_count' = events_created_count + 1
                    /\ found_total' = found_total + 1
                    /\ card_pos' = card_pos + 1
                    /\ pc' = IF card_pos = Len(cards_to_schedule)
                             THEN "day_end" ELSE "card"
            ELSE /\ pc' = "card"
                 /\ UNCHANGED <<events_created_for_day, pending, events_created_count,
                                found_total, card_pos>>
    /\ UNCHANGED <<inputs, result, plan_vars, dist_vars, cards_to_schedule, target_date>>

\* One iteration of "for card in cards_to_schedule": a slot search, then
\* either the new event is recorded or the loop is left.
ScheduleCard ==
    /\ pc = "card"
    /\ card_pos <= Len(cards_to_schedule)
    /\ \E r \in scheduler_func(db, pending, schedule, target_date) :
         /\ day_attempts' = day_attempts + 1
         /\ search_count' = search_count + 1
         /\ last_search' = r
         /\ IF r.found
            THEN LET new_event == ScheduledEvent(found_total + 1, schedule,
                                                 cards_to_schedule[card_pos],
                                                 r.scheduled_datetime)
                 IN /\ events_created_for_day' = Append(events_created_for_day, new_event)
                    /\ pending' = Append(pending, new_event)
                    /\ events_created_count' = events_created_count + 1
                    /\ found_total' = found_total + 1
                    /\ card_pos' = card_pos + 1
                    /\ pc' = IF card_pos = Len(cards_to_schedule)
                             THEN "day_end" ELSE "card"
            ELSE /\ pc' = "day_end"
                 /\ UNCHANGED <<events_created_for_day, pending, events_created_count,
                                found_total, card_pos>>
    /\ UNCHANGED <<inputs, result, plan_vars, dist_vars, cards_to_schedule, target_date>>

\* Variant: the cursor advances by the number of cards given to the day.
EndDay_attempted ==
    /\ pc = "day_end"
    /\ scheduled_events' = scheduled_events \o events_created_for_day
    /\ card_index' = (card_index + Len(cards_to_schedule)) % Len(selected_cards)
    /\ day_pos' = day_pos + 1
    /\ pc' = "day"
    /\ UNCHANGED <<inputs, pending, result, plan_vars, day_vars, found_total, search_count>>

\* schedule_events_for_day returns: the day's events are appended and the
\* cursor advances by the number of events created.
EndDay ==
    /\ pc = "day_end"
    /\ scheduled_events' = scheduled_events \o events_created_for_day
    /\ card_index' = (card_index + events_created_count) % Len(selected_cards)
    /\ day_pos' = day_pos + 1
    /\ pc' = "day"
    /\ UNCHANGED <<inputs, pending, result, plan_vars, day_vars, found_total, search_count>>

\* The loop over the distribution is exhausted: selected_cards is returned.
Return ==
    /\ pc = "day"
    /\ day_pos > Len(distribution)
    /\ pc' = "done"
    /\ result' = Returned(selected_cards)
    /\ UNCHANGED <<inputs, pending, plan_vars, dist_vars, day_vars, found_total, search_count>>

Next ==
    \/ GenerateStart
    \/ SelectCards
    \/ Distribute
    \/ BeginDay
    \/ ScheduleCard
    \/ EndDay
    \/ Return

Spec == Init /\ [][Next]_vars

(* ------------------------------ properties ----------------------------- *)

DayNumber(day_name) == (CHOOSE i \in DOMAIN DayNames : DayNames[i] = day_name) - 1
DayNameOf(dt) == DayNames[weekday(DateOf(dt)) + 1]
Planned == pc \in {"day", "card", "day_end"} \/ (pc = "done" /\ distribution # <<>>)

\* The candidate set of the policy's scope, as the data model defines it.
ScopeCandidates ==
    IF schedule.scope = GLOBAL
    THEN {c \in DOMAIN cards : cards[c].active}
    ELSE IF schedule.scope = CATEGORY
    THEN {c \in DOMAIN cards :
            cards[c].active /\ Some(cards[c].category_uuid) = schedule.category_uuid}
    ELSE {c \in DOMAIN cards : Some(c) = schedule.flash_card_uuid}

\* C1: within one planning run no two Occurrences created for the policy
\* have the same scheduled datetime.
C1_DistinctDatetimes ==
    \A i, j \in DOMAIN pending :
        i # j => pending[i].scheduled_datetime # pending[j].scheduled_datetime

\* C2: the counts of the day distribution sum to the total the totals step
\* returned, and the distribution's keys are exactly the allowed days.
C2_DistributionSumsToTotal ==
    Planned =>
        /\ SumSeq(DictValues(distribution)) = amount_of_events
        /\ Range(DictKeys(distribution)) = Range(schedule.allowed_days)
        /\ Len(distribution) = Len(schedule.allowed_days)

C2_Witness ==
    /\ Planned
    /\ times_per_days # None
    /\ Len(distribution) = 2
    /\ distribution[1][2] # distribution[2][2]

\* C3: the day's Occurrences are for a prefix of the day's cards in order;
\* the loop stops at the first card without a slot, nothing is raised, no
\* later card is tried, and the count returned is the number created and is
\* less than the number of cards given.
C3_StopAtFirstNoSlot ==
    pc \in {"card", "day_end"} =>
        /\ events_created_count = Len(events_created_for_day)
        /\ Len(events_created_for_day) <= Len(cards_to_schedule)
        /\ \A i \in DOMAIN events_created_for_day :
                events_created_for_day[i].flash_card_uuid = cards_to_schedule[i]
        /\ pc = "card" => day_attempts = events_created_count
        /\ (pc = "day_end" /\ last_search.found) =>
                /\ day_attempts = events_created_count
                /\ events_created_count = Len(cards_to_schedule)
        /\ (pc = "day_end" /\ ~last_search.found) =>
                /\ day_attempts = events_created_count + 1
                /\ events_created_count < Len(cards_to_schedule)
                /\ result = NoResult

C3_Witness ==
    /\ pc = "day_end"
    /\ ~last_search.found
    /\ events_created_count = 1
    /\ Len(cards_to_schedule) = 2
    /\ cards_to_schedule[1] # cards_to_schedule[2]

\* C4: after each day the cursor is the number of Occurrences created so
\* far modulo the length of the selected list, and the k-th Occurrence
\* created (k from 0) is for item k mod n of the selected list.
C4_CursorFollowsCreated ==
    (pc \in {"day", "done"} /\ Len(selected_cards) > 0) =>
        /\ card_index = Len(scheduled_events) % Len(selected_cards)
        /\ \A k \in DOMAIN scheduled_events :
                scheduled_events[k].flash_card_uuid =
                    selected_cards[((k - 1) % Len(selected_cards)) + 1]

C4_Witness ==
    /\ pc = "done"
    /\ Len(distribution) = 2
    /\ distribution[1][2] = 2
    /\ Len(scheduled_events) = 2
    /\ DateOf(scheduled_events[1].scheduled_datetime) = DictGet(day_dates, distribution[1][1])
    /\ DateOf(scheduled_events[2].scheduled_datetime) = DictGet(day_dates, distribution[2][1])
    /\ selected_cards[2] # selected_cards[3]

\* C5: each key of the distribution is resolved to the first date on or
\* after today with that weekday: today itself when the weekdays agree,
\* otherwise 1 to 6 days ahead.
C5_FirstDateOnOrAfterToday ==
    \A i \in DOMAIN day_dates :
        LET days_ahead == day_dates[i][2] - today
        IN /\ days_ahead \in 0..(DaysPerWeek - 1)
           /\ weekday(day_dates[i][2]) = DayNumber(day_dates[i][1])
           /\ weekday(today) = DayNumber(day_dates[i][1]) => days_ahead = 0

\* C6: every Occurrence created is dated on an allowed weekday, at a time
\* from start_hour:00 on and before end_hour:00.
C6_InsideAllowedWindow ==
    \A i \in DOMAIN pending :
        LET dt == pending[i].scheduled_datetime
        IN /\ DayNameOf(dt) \in Range(schedule.allowed_days)
           /\ schedule.start_hour * MinutesPerHour <= TimeOf(dt)
           /\ TimeOf(dt) < schedule.end_hour * MinutesPerHour

C6_Witness ==
    /\ Len(pending) = 2
    /\ schedule.frequency_mode = FIXED_INTERVAL
    /\ DateOf(pending[1].scheduled_datetime) # DateOf(pending[2].scheduled_datetime)
    /\ TimeOf(pending[2].scheduled_datetime) =
            schedule.end_hour * MinutesPerHour - MinStartOffset

\* The lists select_weighted_cards is applied to: the policy's candidates,
\* every category's active cards, and the empty list.
SelectionInputs ==
    {valid_cards, <<>>, get_flash_cards(cards, None)}
    \cup {get_flash_cards(cards, Some(c)) : c \in Categories}

\* C7 as stated: n elements of items whenever items is not empty, the empty
\* list when it is, for every n >= 0.
C7_AlwaysExactlyN ==
    /\ pc = "select" =>
        \A n \in 0..amount_of_events :
            select_weighted_cards(cards, <<>>, n) = {[raised |-> FALSE, selected |-> <<>>]}
    /\ (valid_cards # <<>> /\ pc \notin {"start", "select"}) =>
        /\ pc # "raised"
        /\ Len(selected_cards) = amount_of_events
        /\ \A k \in DOMAIN selected_cards : selected_cards[k] \in Range(valid_cards)

\* C7 amended: n elements of items whenever items is not empty and the
\* category of every item resolves; the empty list when items is empty; an
\* error when items holds a card whose category does not resolve.
C7_ExactlyNWhenWeighable ==
    /\ pc = "select" =>
        \A items \in SelectionInputs : \A n \in 0..amount_of_events :
            \A r \in select_weighted_cards(cards, items, n) :
                IF \E k \in DOMAIN items : ~cards[items[k]].has_category
                THEN r.raised
                ELSE /\ ~r.raised
                     /\ Len(r.selected) = IF items = <<>> THEN 0 ELSE n
                     /\ \A k \in DOMAIN r.selected : r.selected[k] \in Range(items)
    /\ pc \in {"distribute", "day", "card", "day_end"} =>
        /\ Len(selected_cards) = amount_of_events
        /\ \A k \in DOMAIN selected_cards : selected_cards[k] \in Range(valid_cards)

C7_Witness ==
    /\ pc = "distribute"
    /\ Len(valid_cards) = 2
    /\ Len(selected_cards) = 3
    /\ selected_cards[1] = selected_cards[3]
    /\ selected_cards[1] # selected_cards[2]

\* C8: a policy whose scope resolves to no candidate returns the empty
\* list, creates no Occurrence and raises nothing, whatever its frequency
\* parameters.
C8_NoCandidatesReturnsEmpty ==
    (ScopeCandidates = {} /\ pc # "start") =>
        /\ pc = "done"
        /\ result = Returned(<<>>)
        /\ pending = <<>>

\* C9: every Occurrence created references an item of the candidate set of
\* the policy's scope.
C9_OccurrenceOfCandidate ==
    \A i \in DOMAIN pending : pending[i].flash_card_uuid \in ScopeCandidates

C9_Witness ==
    /\ schedule.scope = CATEGORY
    /\ Len(pending) = 2
    /\ \E c \in DOMAIN cards :
            cards[c].active /\ Some(cards[c].category_uuid) # schedule.category_uuid

\* C10: every Occurrence created is Pending and references the policy
\* planned; each successful slot search records exactly one Occurrence,
\* once; no Occurrence, stored or created, is changed afterwards.
C10_CreatedOnceNeverMutated ==
    /\ [](/\ \A i \in DOMAIN pending :
                /\ pending[i].status = PENDING
                /\ pending[i].schedule_uuid = schedule.uuid
          /\ Len(pending) = found_total
          /\ \A i, j \in DOMAIN pending : i # j => pending[i].uuid # pending[j].uuid)
    /\ [][/\ db' = db
          /\ Len(pending') >= Len(pending)
          /\ \A i \in DOMAIN pending : pending'[i] = pending[i]
          /\ Len(pending') = Len(pending) + (IF pc = "card" /\ last_search'.found
                                                THEN 1 ELSE 0)]_vars

C10_Witness ==
    /\ found_total = 2
    /\ \E e \in db : e.status = COMPLETED
    /\ \E e \in db : e.status = IGNORED

\* The date the run resolved for the one allowed day given an occurrence.
ChosenDates ==
    {DictGet(day_dates, distribution[i][1]) :
        i \in {j \in DOMAIN distribution : distribution[j][2] > 0}}

OncePerWeek ==
    /\ schedule.frequency_mode = TIMES_PER_WEEK
    /\ schedule.times_per_week = Some(1)
    /\ ScopeCandidates # {}

\* What C11 promises of a run, once it is past its first step.
OneOccurrenceOnChosenDay ==
    /\ pc # "raised"
    /\ pc \notin {"start", "select"} => Len(selected_cards) = 1
    /\ (Planned /\ \A e \in db : DateOf(e.scheduled_datetime) \notin ChosenDates) =>
        /\ Cardinality(ChosenDates) = 1
        /\ pc = "day_end" => last_search.found
        /\ Len(pending) <= 1
        /\ \A i \in DOMAIN pending :
              LET dt == pending[i].scheduled_datetime
              IN /\ DateOf(dt) \in ChosenDates
                 /\ DayNameOf(dt) \in Range(schedule.allowed_days)
                 /\ schedule.start_hour * MinutesPerHour <= TimeOf(dt)
                 /\ TimeOf(dt) < schedule.end_hour * MinutesPerHour
        /\ pc = "done" =>
              /\ result = Returned(selected_cards)
              /\ Len(pending) = 1
              /\ pending[1].flash_card_uuid = selected_cards[1]

\* C11 as stated: a TimesPerWeek policy with times_per_week = 1 and at least
\* one candidate, no Occurrence on the resolved date before the run, selects
\* exactly 1 item and creates exactly 1 Occurrence on the resolved date of
\* the chosen allowed day, inside the hour window.
C11_OnePerWeekPlacesOne ==
    (OncePerWeek /\ pc # "start") => OneOccurrenceOnChosenDay

\* C11 amended: the same, for candidates whose category resolves.
C11_OnePerWeekPlacesOneWhenWeighable ==
    (OncePerWeek /\ pc # "start" /\ \A c \in ScopeCandidates : cards[c].has_category) =>
        OneOccurrenceOnChosenDay

C11_Witness ==
    /\ OncePerWeek
    /\ pc = "done"
    /\ Len(schedule.allowed_days) = 2
    /\ Len(valid_cards) = 2
    /\ Len(pending) = 1
    /\ distribution[2][2] = 1

\* The parameter the policy's active mode requires is absent.
MissingParameter(schedule_) ==
    \/ schedule_.frequency_mode = TIMES_PER_WEEK /\ schedule_.times_per_week = None
    \/ /\ schedule_.frequency_mode = TIMES_PER_DAY
       /\ schedule_.min_times_per_day = None \/ schedule_.max_times_per_day = None
    \/ schedule_.frequency_mode = FIXED_INTERVAL /\ schedule_.interval_minutes = None

UnknownMode(schedule_) ==
    schedule_.frequency_mode \notin {TIMES_PER_WEEK, TIMES_PER_DAY, FIXED_INTERVAL}

\* C12: the totals step raises when the parameter of the active mode is
\* absent and when the mode is none of the three; the error comes before any
\* item is selected, so the run creates no Occurrence.
C12_TotalsRaiseBeforeSelection ==
    (MissingParameter(schedule) \/ UnknownMode(schedule)) =>
        /\ \A t \in calculate_total_events_and_daily_counts(schedule) : t.raised
        /\ pc # "start" =>
              /\ pc = "raised"
              /\ result = Raised
              /\ selected_cards = <<>>
              /\ pending = <<>>

C12_Witness ==
    /\ pc = "raised"
    /\ UnknownMode(schedule)
    /\ ScopeCandidates # {}
    /\ \A c \in ScopeCandidates : cards[c].has_category

(* ------------- the totals and distribution steps on their own --------- *)

run_vars == <<pending, valid_cards, selected_cards, day_dates, dist_vars, day_vars,
              found_total, search_count>>

WideDayPool == {"Mon", "Wed", "Fri"}

\* Non-empty lists of distinct allowed days, in any order.
WideAllowedDayLists ==
    {l \in UNION {[1..k -> WideDayPool] : k \in 1..Cardinality(WideDayPool)} :
        \A i, j \in DOMAIN l : i # j => l[i] # l[j]}

WideWindows == {[start_hour |-> 9, end_hour |-> 10], [start_hour |-> 9, end_hour |-> 17]}

WideIntervals == {30, 45, 60, 90}

WideTimesPerDayRanges == {<<1, 1>>, <<2, 2>>, <<1, 3>>, <<2, 3>>}

WideFrequencyChoices ==
    {Frequency(UNKNOWN_MODE, None, None, None, None)}
    \cup {Frequency(TIMES_PER_WEEK, t, None, None, None) :
            t \in {None} \cup {Some(k) : k \in 1..(MaxTimesPerWeek + 2)}}
    \cup {Frequency(TIMES_PER_DAY, None, mn, mx, None) :
            <<mn, mx>> \in {<<None, Some(1)>>, <<Some(1), None>>}
                \cup {<<Some(q[1]), Some(q[2])>> : q \in WideTimesPerDayRanges}}
    \cup {Frequency(FIXED_INTERVAL, None, None, None, iv) :
            iv \in {None} \cup {Some(i) : i \in WideIntervals}}

WideSchedules ==
    {[uuid |-> ScheduleUuid,
      scope |-> GLOBAL,
      category_uuid |-> None,
      flash_card_uuid |-> None,
      allowed_days |-> days,
      start_hour |-> w.start_hour,
      end_hour |-> w.end_hour,
      frequency_mode |-> f.frequency_mode,
      times_per_week |-> f.times_per_week,
      min_times_per_day |-> f.min_times_per_day,
      max_times_per_day |-> f.max_times_per_day,
      interval_minutes |-> f.interval_minutes] :
        days \in WideAllowedDayLists, w \in WideWindows, f \in WideFrequencyChoices}

\* The daily_occurrences lists distribute_ordered_occurrences is called with.
DailyOccurrencesLists ==
    UNION {[1..k -> 1..3] : k \in 0..(Cardinality(WideDayPool) + 1)}

\* Either the totals step is about to run on a policy, or
\* distribute_ordered_occurrences is about to be called with a list.
InitTotals ==
    /\ today = 0
    /\ cards = <<>>
    /\ db = {}
    /\ schedule \in WideSchedules
    /\ \/ pc = "totals" /\ times_per_days = None
       \/ /\ pc = "ordered"
          /\ schedule.frequency_mode = TIMES_PER_DAY
          /\ schedule.min_times_per_day = Some(1)
          /\ schedule.max_times_per_day = Some(3)
          /\ schedule.end_hour = 10
          /\ times_per_days \in {Some(l) : l \in DailyOccurrencesLists}
    /\ pending = <<>>
    /\ result = NoResult
    /\ valid_cards = <<>>
    /\ amount_of_events = 0
    /\ selected_cards = <<>>
    /\ distribution = <<>>
    /\ day_dates = <<>>
    /\ day_pos = 1
    /\ card_index = 0
    /\ scheduled_events = <<>>
    /\ cards_to_schedule = <<>>
    /\ target_date = 0
    /\ card_pos = 1
    /\ events_created_for_day = <<>>
    /\ events_created_count = 0
    /\ day_attempts = 0
    /\ last_search = NoSlot(<<>>)
    /\ found_total = 0
    /\ search_count = 0
    /\ runs = <<>>
    /\ NoPass

\* amount_of_events, times_per_days = calculate_total_events_and_daily_counts(schedule)
Totals ==
    /\ pc = "totals"
    /\ \E t \in calculate_total_events_and_daily_counts(schedule) :
         IF t.raised
         THEN /\ pc' = "raised"
              /\ result' = Raised
              /\ UNCHANGED <<amount_of_events, times_per_days>>
         ELSE /\ pc' = "distribution"
              /\ amount_of_events' = t.amount_of_events
              /\ times_per_days' = t.times_per_days
              /\ UNCHANGED result
    /\ UNCHANGED <<inputs, distribution, run_vars>>

\* distribution = determine_weekly_event_distribution(schedule, amount_of_events, times_per_days)
WeeklyDistribution ==
    /\ pc = "distribution"
    /\ \E r \in determine_weekly_event_distribution(schedule, amount_of_events,
                                                    times_per_days) :
         IF r.raised
         THEN /\ pc' = "raised"
              /\ result' = Raised
              /\ UNCHANGED distribution
         ELSE /\ pc' = "distributed"
              /\ distribution' = r.distribution
              /\ result' = Returned(r.distribution)
    /\ UNCHANGED <<inputs, amount_of_events, times_per_days, run_vars>>

\* distribute_ordered_occurrences(schedule, daily_occurrences)
OrderedDistribution ==
    /\ pc = "ordered"
    /\ LET r == distribute_ordered_occurrences(schedule, times_per_days[1])
       IN IF r.raised
          THEN /\ pc' = "ordered_raised"
               /\ result' = Raised
               /\ UNCHANGED distribution
          ELSE /\ pc' = "ordered_returned"
               /\ distribution' = r.distribution
               /\ result' = Returned(r.distribution)
    /\ UNCHANGED <<inputs, amount_of_events, times_per_days, run_vars>>

NextTotals ==
    \/ Totals
    \/ WeeklyDistribution
    \/ OrderedDistribution

TotalsSpec == InitTotals /\ [][NextTotals]_vars

\* The count the distribution gives each allowed day, in allowed-day order.
CountsInDayOrder ==
    [i \in DOMAIN schedule.allowed_days |-> DictGet(distribution, schedule.allowed_days[i])]

NumAllowedDays == Len(schedule.allowed_days)

DistributionOverAllowedDays ==
    /\ Len(distribution) = NumAllowedDays
    /\ Range(DictKeys(distribution)) = Range(schedule.allowed_days)

TotalsKnown == pc \in {"distribution", "distributed"}

\* C13: for a TimesPerWeek policy with n allowed days the total is
\* times_per_week with no per-day list; the distribution sums to the total,
\* with every count in {0,1} and exactly total days at 1 when total <= n,
\* and every allowed day's count >= 1 when total > n.
C13_TimesPerWeekDistribution ==
    (schedule.frequency_mode = TIMES_PER_WEEK /\ schedule.times_per_week # None) =>
        /\ TotalsKnown =>
              /\ amount_of_events = schedule.times_per_week[1]
              /\ times_per_days = None
        /\ pc = "distributed" =>
              /\ DistributionOverAllowedDays
              /\ SumSeq(CountsInDayOrder) = amount_of_events
              /\ IF amount_of_events <= NumAllowedDays
                 THEN /\ \A i \in 1..NumAllowedDays : CountsInDayOrder[i] \in {0, 1}
                      /\ Cardinality({i \in 1..NumAllowedDays : CountsInDayOrder[i] = 1})
                            = amount_of_events
                 ELSE \A i \in 1..NumAllowedDays : CountsInDayOrder[i] >= 1

C13_Witness ==
    /\ pc = "distributed"
    /\ schedule.frequency_mode = TIMES_PER_WEEK
    /\ amount_of_events = 2
    /\ CountsInDayOrder = <<1, 0, 1>>

\* C14: for a FixedInterval policy with n allowed days, eventsPerDay is the
\* window's minutes integer-divided by interval_minutes, the total is
\* eventsPerDay * n with no per-day list, and every allowed day is given
\* exactly eventsPerDay.
C14_FixedIntervalTotals ==
    (schedule.frequency_mode = FIXED_INTERVAL /\ schedule.interval_minutes # None) =>
        LET eventsPerDay == ((schedule.end_hour - schedule.start_hour) * MinutesPerHour)
                                \div schedule.interval_minutes[1]
        IN /\ TotalsKnown =>
                 /\ amount_of_events = eventsPerDay * NumAllowedDays
                 /\ times_per_days = None
           /\ pc = "distributed" =>
                 /\ DistributionOverAllowedDays
                 /\ \A i \in 1..NumAllowedDays : CountsInDayOrder[i] = eventsPerDay

C14_Witness ==
    /\ pc = "distributed"
    /\ schedule.frequency_mode = FIXED_INTERVAL
    /\ schedule.start_hour = 9
    /\ schedule.end_hour = 17
    /\ schedule.interval_minutes = Some(60)
    /\ amount_of_events = 24
    /\ CountsInDayOrder = <<8, 8, 8>>

\* min_times_per_day and max_times_per_day are both present.
DailyRange(schedule_) ==
    /\ schedule_.frequency_mode = TIMES_PER_DAY
    /\ schedule_.min_times_per_day # None
    /\ schedule_.max_times_per_day # None

\* C15: for a TimesPerDay policy with min < max and n allowed days the
\* totals step returns a per-day list of length n with every entry in
\* [min, max], the total is the sum of the list, and the distribution gives
\* the i-th entry to the i-th allowed day.
C15_RangedTimesPerDay ==
    (DailyRange(schedule) /\ pc # "ordered"
        /\ schedule.min_times_per_day[1] < schedule.max_times_per_day[1]) =>
        /\ pc # "raised"
        /\ TotalsKnown =>
              /\ times_per_days # None
              /\ Len(times_per_days[1]) = NumAllowedDays
              /\ \A i \in DOMAIN times_per_days[1] :
                    /\ schedule.min_times_per_day[1] <= times_per_days[1][i]
                    /\ times_per_days[1][i] <= schedule.max_times_per_day[1]
              /\ amount_of_events = SumSeq(times_per_days[1])
        /\ pc = "distributed" =>
              /\ DictKeys(distribution) = schedule.allowed_days
              /\ DictValues(distribution) = times_per_days[1]

C15_Witness ==
    /\ pc = "distributed"
    /\ schedule.allowed_days = <<"Fri", "Mon", "Wed">>
    /\ DictValues(distribution) = <<3, 1, 1>>
    /\ amount_of_events = 5

\* C16: for a TimesPerDay policy with min = max and n allowed days the
\* total is min * n with no per-day list and every allowed day is given
\* exactly min occurrences, the total integer-divided by n.
C16_FixedTimesPerDay ==
    (DailyRange(schedule) /\ pc # "ordered"
        /\ schedule.min_times_per_day = schedule.max_times_per_day) =>
        /\ pc # "raised"
        /\ TotalsKnown =>
              /\ amount_of_events = schedule.min_times_per_day[1] * NumAllowedDays
              /\ times_per_days = None
        /\ pc = "distributed" =>
              /\ DistributionOverAllowedDays
              /\ \A i \in 1..NumAllowedDays :
                    /\ CountsInDayOrder[i] = schedule.min_times_per_day[1]
                    /\ CountsInDayOrder[i] = amount_of_events \div NumAllowedDays

C16_Witness ==
    /\ pc = "distributed"
    /\ schedule.min_times_per_day = Some(2)
    /\ schedule.max_times_per_day = Some(2)
    /\ CountsInDayOrder = <<2, 2, 2>>

\* C17: distribute_ordered_occurrences fails, returning no mapping, whenever
\* the number of counts differs from the number of allowed days; with equal
\* lengths it returns the 1:1 zip in allowed-day order.
C17_OrderedLengthChecked ==
    /\ pc = "ordered_raised" =>
          /\ Len(times_per_days[1]) # NumAllowedDays
          /\ result = Raised
          /\ distribution = <<>>
    /\ pc = "ordered_returned" =>
          /\ Len(times_per_days[1]) = NumAllowedDays
          /\ distribution = [i \in 1..NumAllowedDays |->
                                <<schedule.allowed_days[i], times_per_days[1][i]>>]
          /\ result = Returned(distribution)

C17_Witness ==
    /\ pc = "ordered_raised"
    /\ NumAllowedDays = 3
    /\ Len(times_per_days[1]) = 2

(* ------------------- constructing and inserting a Schedule ------------- *)

\* The constructor's keyword arguments, each one None or a value.
ConstructorArguments ==
    [scope : {None, Some(GLOBAL), Some(CATEGORY), Some(CARD)},
     category_uuid : {None, Some("A")},
     flash_card_uuid : {None, Some(1)},
     allowed_days : {None, Some(<<"Mon">>)},
     start_hour : {None, Some(9)},
     end_hour : {None, Some(10)},
     frequency_mode : {None, Some(TIMES_PER_WEEK), Some(TIMES_PER_DAY),
                       Some(FIXED_INTERVAL)},
     times_per_week : {None, Some(1), Some(8)},
     min_times_per_day : {None, Some(1), Some(3)},
     max_times_per_day : {None, Some(2)},
     interval_minutes : {None, Some(0), Some(30)}]

\* Variant: the fixed_interval mode is not checked for its parameter.
Schedule_post_init_no_interval_check(self) ==
    \/ self.scope = None
    \/ self.scope = Some(CATEGORY) /\ self.category_uuid = None
    \/ self.scope = Some(CARD) /\ self.flash_card_uuid = None
    \/ self.allowed_days = None
    \/ self.start_hour = None
    \/ self.end_hour = None
    \/ self.frequency_mode = None
    \/ self.frequency_mode = Some(TIMES_PER_WEEK) /\ self.times_per_week = None
    \/ self.frequency_mode = Some(TIMES_PER_DAY) /\ self.min_times_per_day = None
    \/ self.frequency_mode = Some(TIMES_PER_DAY) /\ self.max_times_per_day = None

\* Schedule.__post_init__: TRUE when it raises ValueError.
Schedule_post_init(self) ==
    \/ self.scope = None
    \/ self.scope = Some(CATEGORY) /\ self.category_uuid = None
    \/ self.scope = Some(CARD) /\ self.flash_card_uuid = None
    \/ self.allowed_days = None
    \/ self.start_hour = None
    \/ self.end_hour = None
    \/ self.frequency_mode = None
    \/ self.frequency_mode = Some(TIMES_PER_WEEK) /\ self.times_per_week = None
    \/ self.frequency_mode = Some(TIMES_PER_DAY) /\ self.min_times_per_day = None
    \/ self.frequency_mode = Some(TIMES_PER_DAY) /\ self.max_times_per_day = None
    \/ self.frequency_mode = Some(FIXED_INTERVAL) /\ self.interval_minutes = None

\* validate_schedule (before_insert) on a constructed Schedule: TRUE when it
\* raises ValueError.
validate_schedule(target) ==
    \/ /\ target.frequency_mode = Some(TIMES_PER_WEEK)
       /\ ~(1 <= target.times_per_week[1] /\ target.times_per_week[1] <= 7)
    \/ /\ target.frequency_mode = Some(TIMES_PER_DAY)
       /\ target.max_times_per_day[1] < target.min_times_per_day[1]
    \/ /\ target.frequency_mode = Some(FIXED_INTERVAL)
       /\ target.interval_minutes[1] <= 0

\* The CHECK constraints of the schedules table; a NULL operand lets a
\* constraint pass.  TRUE when the row is accepted.
CheckConstraints(row) ==
    /\ row.times_per_week # None =>
            (1 <= row.times_per_week[1] /\ row.times_per_week[1] <= 7)
    /\ 0 <= row.start_hour[1] /\ row.start_hour[1] <= 23
    /\ 0 <= row.end_hour[1] /\ row.end_hour[1] <= 23
    /\ row.end_hour[1] > row.start_hour[1]
    /\ row.frequency_mode = Some(TIMES_PER_DAY) =>
            /\ row.min_times_per_day[1] >= 1
            /\ row.max_times_per_day[1] >= row.min_times_per_day[1]
    /\ row.frequency_mode = Some(FIXED_INTERVAL) => row.interval_minutes[1] > 0

\* The constructed object as the engine reads it.
AsSchedule(self) ==
    [uuid |-> ScheduleUuid,
     scope |-> self.scope[1],
     category_uuid |-> self.category_uuid,
     flash_card_uuid |-> self.flash_card_uuid,
     allowed_days |-> self.allowed_days[1],
     start_hour |-> self.start_hour[1],
     end_hour |-> self.end_hour[1],
     frequency_mode |-> self.frequency_mode[1],
     times_per_week |-> self.times_per_week,
     min_times_per_day |-> self.min_times_per_day,
     max_times_per_day |-> self.max_times_per_day,
     interval_minutes |-> self.interval_minutes]

InitConstruct ==
    /\ today = 0
    /\ cards = <<>>
    /\ db = {}
    /\ schedule \in ConstructorArguments
    /\ pc = "construct"
    /\ times_per_days = None
    /\ pending = <<>>
    /\ result = NoResult
    /\ valid_cards = <<>>
    /\ amount_of_events = 0
    /\ selected_cards = <<>>
    /\ distribution = <<>>
    /\ day_dates = <<>>
    /\ day_pos = 1
    /\ card_index = 0
    /\ scheduled_events = <<>>
    /\ cards_to_schedule = <<>>
    /\ target_date = 0
    /\ card_pos = 1
    /\ events_created_for_day = <<>>
    /\ events_created_count = 0
    /\ day_attempts = 0
    /\ last_search = NoSlot(<<>>)
    /\ found_total = 0
    /\ search_count = 0
    /\ runs = <<>>
    /\ NoPass

\* Schedule(**arguments): the dataclass __init__ followed by __post_init__.
Construct ==
    /\ pc = "construct"
    /\ IF Schedule_post_init(schedule)
       THEN pc' = "construct_raised" /\ result' = Raised
       ELSE pc' = "constructed" /\ result' = Returned(<<>>)
    /\ UNCHANGED <<inputs, amount_of_events, times_per_days, distribution, run_vars>>

\* session.add(schedule); session.commit(): the before_insert listener, then
\* the INSERT against the table's CHECK constraints.
Insert ==
    /\ pc = "constructed"
    /\ IF validate_schedule(schedule) \/ ~CheckConstraints(schedule)
       THEN pc' = "insert_raised" /\ result' = Raised
       ELSE pc' = "inserted" /\ result' = Returned(<<>>)
    /\ UNCHANGED <<inputs, amount_of_events, times_per_days, distribution, run_vars>>

NextConstruct ==
    \/ Construct
    \/ Insert

ConstructSpec == InitConstruct /\ [][NextConstruct]_vars

Constructed == pc \in {"constructed", "inserted", "insert_raised"}

\* The parameters of the object's frequency mode are present.
ActiveParametersPresent(self) ==
    /\ self.frequency_mode = Some(TIMES_PER_WEEK) => self.times_per_week # None
    /\ self.frequency_mode = Some(TIMES_PER_DAY) =>
            self.min_times_per_day # None /\ self.max_times_per_day # None
    /\ self.frequency_mode = Some(FIXED_INTERVAL) => self.interval_minutes # None

\* The parameters of the two other frequency modes are absent.
OtherParametersAbsent(self) ==
    /\ self.frequency_mode # Some(TIMES_PER_WEEK) => self.times_per_week = None
    /\ self.frequency_mode # Some(TIMES_PER_DAY) =>
            self.min_times_per_day = None /\ self.max_times_per_day = None
    /\ self.frequency_mode # Some(FIXED_INTERVAL) => self.interval_minutes = None

\* C20 as stated: every successfully constructed Schedule carries exactly
\* the parameters of its active mode, those of the other two modes being
\* absent, and a construction with a missing or mismatched parameter fails
\* at construction.
C20_ExactlyActiveParameters ==
    /\ Constructed =>
          ActiveParametersPresent(schedule) /\ OtherParametersAbsent(schedule)
    /\ (pc # "construct" /\ ~ActiveParametersPresent(schedule)) =>
          pc = "construct_raised"

\* C20 amended: every successfully constructed Schedule carries the
\* parameters of its active mode, and a construction that misses one fails
\* at construction; parameters of the other modes are accepted; a value out
\* of range is rejected at insert, so the totals step never fails on an
\* inserted Schedule.
C20_ActiveParametersPresent ==
    /\ Constructed => ActiveParametersPresent(schedule)
    /\ (pc # "construct" /\ ~ActiveParametersPresent(schedule)) =>
          pc = "construct_raised"
    /\ pc = "inserted" =>
          /\ ~validate_schedule(schedule)
          /\ ~MissingParameter(AsSchedule(schedule))
          /\ \A t \in calculate_total_events_and_daily_counts(AsSchedule(schedule)) :
                ~t.raised

C20_Witness ==
    /\ pc = "inserted"
    /\ schedule.frequency_mode = Some(TIMES_PER_WEEK)
    /\ schedule.times_per_week = Some(1)
    /\ schedule.interval_minutes = Some(30)
    /\ schedule.min_times_per_day = Some(3)

(* -------------------- the pass over every active policy ---------------- *)

Policy(uuid, scope_choice, days, f) ==
    [uuid |-> uuid,
     scope |-> scope_choice.scope,
     category_uuid |-> scope_choice.category_uuid,
     flash_card_uuid |-> scope_choice.flash_card_uuid,
     allowed_days |-> days,
     start_hour |-> 9,
     end_hour |-> 10,
     frequency_mode |-> f.frequency_mode,
     times_per_week |-> f.times_per_week,
     min_times_per_day |-> f.min_times_per_day,
     max_times_per_day |-> f.max_times_per_day,
     interval_minutes |-> f.interval_minutes]

\* Once a week over every card; every half hour over category A; a policy
\* whose times_per_week is absent; once or twice a day for card 3.
WeeklyPolicy ==
    Policy("S1", [scope |-> GLOBAL, category_uuid |-> None, flash_card_uuid |-> None],
           <<"Mon">>, Frequency(TIMES_PER_WEEK, Some(1), None, None, None))
IntervalPolicy ==
    Policy("S2", [scope |-> CATEGORY, category_uuid |-> Some("A"), flash_card_uuid |-> None],
           <<"Mon", "Thu">>, Frequency(FIXED_INTERVAL, None, None, None, Some(30)))
BrokenPolicy ==
    Policy("S3", [scope |-> GLOBAL, category_uuid |-> None, flash_card_uuid |-> None],
           <<"Thu">>, Frequency(TIMES_PER_WEEK, None, None, None, None))
CardPolicy ==
    Policy("S4", [scope |-> CARD, category_uuid |-> None, flash_card_uuid |-> Some(3)],
           <<"Mon">>, Frequency(TIMES_PER_DAY, None, Some(1), Some(2), None))

PassPolicies == {WeeklyPolicy, IntervalPolicy, BrokenPolicy, CardPolicy}

\* The schedules table: up to three rows of distinct policies, each row
\* active or not.
ScheduleTables ==
    {t \in UNION {[1..k -> [schedule : PassPolicies, active : BOOLEAN]] : k \in 0..3} :
        \A i, j \in DOMAIN t : i # j => t[i].schedule # t[j].schedule}

InitPass ==
    /\ today \in {0, 3}
    /\ cards \in CardTables
    /\ db \in {{}, ExistingEvents(IntervalPolicy, today, MinutesPerHour)}
    /\ schedules \in ScheduleTables
    /\ schedule = WeeklyPolicy
    /\ pc = "load"
    /\ all_schedules = <<>>
    /\ schedule_pos = 0
    /\ total_cards_processed = 0
    /\ pass_result = NoResult
    /\ entered = <<>>
    /\ planned = <<>>
    /\ pending = <<>>
    /\ result = NoResult
    /\ valid_cards = <<>>
    /\ amount_of_events = 0
    /\ times_per_days = None
    /\ selected_cards = <<>>
    /\ distribution = <<>>
    /\ day_dates = <<>>
    /\ day_pos = 1
    /\ card_index = 0
    /\ scheduled_events = <<>>
    /\ cards_to_schedule = <<>>
    /\ target_date = 0
    /\ card_pos = 1
    /\ events_created_for_day = <<>>
    /\ events_created_count = 0
    /\ day_attempts = 0
    /\ last_search = NoSlot(<<>>)
    /\ found_total = 0
    /\ search_count = 0
    /\ runs = <<>>

\* Variant: the rows are loaded without the filter on active.
LoadSchedules_unfiltered ==
    /\ pc = "load"
    /\ LET rows == schedules
       IN /\ all_schedules' = [i \in DOMAIN rows |-> rows[i].schedule]
          /\ total_cards_processed' = 0
          /\ IF rows = <<>>
             THEN pc' = "pass_done" /\ pass_result' = Returned(0)
             ELSE pc' = "next" /\ UNCHANGED pass_result
    /\ schedule_pos' = 1
    /\ UNCHANGED <<today, cards, db, runs, schedule, schedules, entered, planned, pending,
                   result, plan_vars, dist_vars,
                   day_vars, found_total, search_count>>

\* all_schedules = select(Schedule).where(Schedule.active == True), then the
\* return of 0 when there is none.
LoadSchedules ==
    /\ pc = "load"
    /\ LET rows == SelectSeq(schedules, LAMBDA r : r.active)
       IN /\ all_schedules' = [i \in DOMAIN rows |-> rows[i].schedule]
          /\ total_cards_processed' = 0
          /\ IF rows = <<>>
             THEN pc' = "pass_done" /\ pass_result' = Returned(0)
             ELSE pc' = "next" /\ UNCHANGED pass_result
    /\ schedule_pos' = 1
    /\ UNCHANGED <<today, cards, db, runs, schedule, schedules, entered, planned, pending,
                   result, plan_vars, dist_vars,
                   day_vars, found_total, search_count>>

\* The head of "for schedule in all_schedules": generate_schedule_events is
\* entered with fresh locals, or the loop is over and the total is returned.
PlanNext ==
    /\ pc = "next"
    /\ IF schedule_pos <= Len(all_schedules)
       THEN /\ schedule' = all_schedules[schedule_pos]
            /\ entered' = Append(entered, all_schedules[schedule_pos].uuid)
            /\ pc' = "start"
            /\ UNCHANGED pass_result
       ELSE /\ pass_result' = Returned(total_cards_processed)
            /\ pc' = "pass_done"
            /\ UNCHANGED <<schedule, entered>>
    /\ result' = NoResult
    /\ valid_cards' = <<>>
    /\ amount_of_events' = 0
    /\ times_per_days' = None
    /\ selected_cards' = <<>>
    /\ distribution' = <<>>
    /\ day_dates' = <<>>
    /\ day_pos' = 1
    /\ card_index' = 0
    /\ scheduled_events' = <<>>
    /\ cards_to_schedule' = <<>>
    /\ target_date' = 0
    /\ card_pos' = 1
    /\ events_created_for_day' = <<>>
    /\ events_created_count' = 0
    /\ day_attempts' = 0
    /\ last_search' = NoSlot(<<>>)
    /\ search_count' = 0
    /\ UNCHANGED <<today, cards, db, runs, pending, found_total, schedules, all_schedules,
                   schedule_pos, total_cards_processed, planned>>

\* total_cards_processed += len(processed_cards)
AddProcessed ==
    /\ pc = "done"
    /\ total_cards_processed' = total_cards_processed + Len(result.value)
    /\ planned' = Append(planned, [uuid |-> schedule.uuid,
                                   processed |-> Len(result.value),
                                   total |-> amount_of_events])
    /\ schedule_pos' = schedule_pos + 1
    /\ pc' = "next"
    /\ UNCHANGED <<today, cards, db, runs, schedule, pending, result, plan_vars,
                   dist_vars, day_vars, found_total, search_count,
                   schedules, all_schedules, pass_result, entered>>

\* Variant: the error of one policy is caught and the loop goes on.
Propagate_isolated ==
    /\ pc = "raised"
    /\ schedule_pos' = schedule_pos + 1
    /\ pc' = "next"
    /\ UNCHANGED <<today, cards, db, runs, schedule, pending, result, plan_vars,
                   dist_vars, day_vars, found_total, search_count,
                   schedules, all_schedules, total_cards_processed, pass_result,
                   entered, planned>>

\* An error of generate_schedule_events leaves the loop and the function:
\* there is no try around the call.
Propagate ==
    /\ pc = "raised"
    /\ pass_result' = Raised
    /\ pc' = "pass_raised"
    /\ UNCHANGED <<today, cards, db, runs, schedule, pending, result, plan_vars,
                   dist_vars, day_vars, found_total, search_count,
                   schedules, all_schedules, schedule_pos, total_cards_processed,
                   entered, planned>>

NextPass ==
    \/ LoadSchedules
    \/ PlanNext
    \/ Next
    \/ AddProcessed
    \/ Propagate

PassSpec == InitPass /\ [][NextPass]_vars

\* The candidate set of a policy's scope, as the data model defines it.
ScopeCandidatesOf(schedule_) ==
    IF schedule_.scope = GLOBAL
    THEN {c \in DOMAIN cards : cards[c].active}
    ELSE IF schedule_.scope = CATEGORY
    THEN {c \in DOMAIN cards :
            cards[c].active /\ Some(cards[c].category_uuid) = schedule_.category_uuid}
    ELSE {c \in DOMAIN cards : Some(c) = schedule_.flash_card_uuid}

\* The uuids of the active rows of the schedules table, in table order.
ActiveUuids ==
    LET rows == SelectSeq(schedules, LAMBDA r : r.active)
    IN [i \in DOMAIN rows |-> rows[i].schedule.uuid]

PolicyOf(uuid) == CHOOSE p \in PassPolicies : p.uuid = uuid

IsPrefix(s1, s2) == Len(s1) <= Len(s2) /\ \A i \in DOMAIN s1 : s1[i] = s2[i]

\* C18: the pass plans every active policy exactly once and no inactive
\* one, and returns the sum of the lengths of the selected lists, each the
\* policy's total occurrence count when the policy has candidates and 0
\* otherwise, however many Occurrences were placed; without an active
\* policy it returns 0.
C18_EveryActivePolicyOnce ==
    /\ IsPrefix(entered, ActiveUuids)
    /\ Len(planned) <= Len(entered)
    /\ \A i \in DOMAIN planned :
          /\ planned[i].uuid = entered[i]
          /\ planned[i].total \in
                {t.amount_of_events :
                    t \in calculate_total_events_and_daily_counts(PolicyOf(planned[i].uuid))}
          /\ planned[i].processed =
                IF ScopeCandidatesOf(PolicyOf(planned[i].uuid)) # {}
                THEN planned[i].total ELSE 0
    /\ pc = "pass_done" =>
          /\ entered = ActiveUuids
          /\ Len(planned) = Len(entered)
          /\ pass_result =
                Returned(SumSeq([i \in DOMAIN planned |-> planned[i].processed]))
          /\ ActiveUuids = <<>> => pass_result = Returned(0)

C18_Witness ==
    /\ pc = "pass_done"
    /\ Len(schedules) = 3
    /\ entered = <<"S2", "S1">>
    /\ pass_result = Returned(5)
    /\ Len(pending) = 1

\* The planning of the policy cannot but end in an error.
Fails(schedule_) ==
    \/ MissingParameter(schedule_)
    \/ UnknownMode(schedule_)
    \/ \E c \in ScopeCandidatesOf(schedule_) : ~cards[c].has_category

\* C19: an error raised while planning one policy leaves the pass uncaught:
\* no later policy is planned, no count is returned, and the Occurrences
\* recorded for the policies planned earlier stay recorded.
C19_ErrorPropagates ==
    /\ [](/\ \A i \in DOMAIN entered :
                Fails(PolicyOf(entered[i])) =>
                    /\ i = Len(entered)
                    /\ pass_result \in {NoResult, Raised}
                    /\ pc \in {"start", "select", "raised", "pass_raised"}
          /\ pc = "pass_raised" =>
                /\ pass_result = Raised
                /\ Fails(schedule)
                /\ Len(planned) = Len(entered) - 1
                /\ Len(pending) = found_total
                /\ \A i \in DOMAIN pending :
                      \E k \in DOMAIN planned : pending[i].schedule_uuid = planned[k].uuid)
    /\ [][pc = "raised" =>
            /\ pc' = "pass_raised"
            /\ pass_result' = Raised
            /\ pending' = pending
            /\ entered' = entered
            /\ planned' = planned]_vars

C19_Witness ==
    /\ pc = "pass_raised"
    /\ entered = <<"S1", "S3">>
    /\ Len(all_schedules) = 3
    /\ Len(pending) = 1

(* ------------------- claims on a run of one policy (2) ------------------ *)

UnweighableCandidate == \E c \in ScopeCandidates : ~cards[c].has_category

\* C22: when a candidate of the policy has no resolvable category, computing
\* its weight fails, so the selection fails on every outcome, the run of the
\* policy ends with an error and no Occurrence is created for it.
C22_MissingCategoryFails ==
    UnweighableCandidate =>
        /\ pending = <<>>
        /\ pc \in {"start", "select", "raised"}
        /\ pc = "raised" => result = Raised
        /\ pc = "select" =>
            /\ \E k \in DOMAIN valid_cards : calculate_weight_fails(cards, valid_cards[k])
            /\ \A r \in select_weighted_cards(cards, valid_cards, amount_of_events) :
                    r.raised

C22_Witness ==
    /\ UnweighableCandidate
    /\ pc = "raised"
    /\ valid_cards # <<>>
    /\ amount_of_events > 0
    /\ ~MissingParameter(schedule)
    /\ ~UnknownMode(schedule)

\* The events the run created on a date.
CreatedOn(date) ==
    {k \in DOMAIN pending : DateOf(pending[k].scheduled_datetime) = date}

\* C29: in a run of one policy the events created on the date of each
\* allowed day are at most the day's count in the distribution, and the
\* events created in the whole run are at most the number of selected cards,
\* which is the policy's total.
C29_CreatedWithinCounts ==
    /\ ~Planned => pending = <<>>
    /\ Planned =>
        /\ \A i \in DOMAIN distribution :
              Cardinality(CreatedOn(DictGet(day_dates, distribution[i][1])))
                  <= distribution[i][2]
        /\ \A k \in DOMAIN pending :
              \E i \in DOMAIN distribution :
                  DateOf(pending[k].scheduled_datetime) =
                      DictGet(day_dates, distribution[i][1])
        /\ Len(pending) <= Len(selected_cards)
        /\ Len(selected_cards) = amount_of_events

\* A day reached its count of two, and another day stopped short of it.
C29_Witness ==
    /\ pc = "done"
    /\ Len(distribution) = 2
    /\ distribution[1][2] = 2
    /\ distribution[2][2] = 2
    /\ Cardinality(CreatedOn(DictGet(day_dates, distribution[1][1]))) = 2
    /\ Cardinality(CreatedOn(DictGet(day_dates, distribution[2][1]))) = 1

\* Every outcome of the totals step is a total of zero.
ZeroTotal ==
    \A t \in calculate_total_events_and_daily_counts(schedule) :
        ~t.raised /\ t.amount_of_events = 0

\* The cursor arithmetic is only reached with a non-empty selected list.
NoModuloByZero ==
    /\ (pc = "day" /\ day_pos <= Len(distribution) /\ distribution[day_pos][2] > 0)
            => Len(selected_cards) > 0
    /\ pc \in {"card", "day_end"} => Len(selected_cards) > 0

\* C30 as stated: no modulo by zero, and a policy whose total is 0 returns
\* an empty selection, creates no Occurrence and raises no error.
C30_ZeroTotalNeverRaises ==
    /\ NoModuloByZero
    /\ ZeroTotal =>
        /\ pc # "raised"
        /\ pending = <<>>
        /\ selected_cards = <<>>
        /\ pc = "done" => result = Returned(<<>>)

\* C30 amended: no modulo by zero; a policy whose total is 0 creates no
\* Occurrence, and returns an empty selection without error when the category
\* of every candidate resolves; when one does not, the run ends with the
\* error of the weight computation.
C30_ZeroTotalEmptyWhenWeighable ==
    /\ NoModuloByZero
    /\ ZeroTotal =>
        /\ pending = <<>>
        /\ selected_cards = <<>>
        /\ IF UnweighableCandidate
           THEN pc \in {"start", "select", "raised"}
           ELSE /\ pc # "raised"
                /\ pc = "done" => result = Returned(<<>>)

\* A policy with candidates and a total of 0 went through the whole loop
\* over its distribution.
C30_Witness ==
    /\ ZeroTotal
    /\ pc = "done"
    /\ valid_cards # <<>>
    /\ Len(distribution) = 2
    /\ day_pos > Len(distribution)
    /\ result = Returned(<<>>)

(* ------------------- claims on a pass over the policies (2) ------------- *)

\* C28: within one sequential pass over the active policies no Occurrence is
\* created at a datetime that is already the scheduled datetime of another
\* Occurrence, whether that one was in the table before the pass or was
\* created earlier in the pass by any policy.
C28_NoDuplicateDatetimeInPass ==
    /\ \A i \in DOMAIN pending : \A e \in db :
            pending[i].scheduled_datetime # e.scheduled_datetime
    /\ \A i, j \in DOMAIN pending :
            i < j => pending[i].scheduled_datetime # pending[j].scheduled_datetime

Ceil(a, b) == (a + b - 1) \div b

\* The steps the days after position p can still take: for each day its
\* head, one search per card, and its end.
RemainingCost(p) ==
    SumSeq([i \in 1..(Len(distribution) - p) |-> distribution[p + i][2] + 2])

\* A measure of the steps a run can still take.
Rank ==
    LET n == Len(schedule.allowed_days)
        MaxTotal == CHOOSE m \in {t.amount_of_events :
                                    t \in calculate_total_events_and_daily_counts(schedule)} :
                        \A t \in calculate_total_events_and_daily_counts(schedule) :
                            t.amount_of_events <= m
    IN CASE pc = "start" -> 4 + 2 * n + MaxTotal
         [] pc = "select" -> 3 + 2 * n + amount_of_events
         [] pc = "distribute" -> 2 + 2 * n + amount_of_events
         [] pc = "day" -> 1 + RemainingCost(day_pos - 1)
         [] pc = "card" -> 2 + RemainingCost(day_pos)
                             + (Len(cards_to_schedule) - card_pos + 1)
         [] pc = "day_end" -> 2 + RemainingCost(day_pos)
         [] OTHER -> 0

\* The occupancy checks of the latest slot search are within the bound of
\* its strategy, and the searches of the run within the policy's total.
SearchBounds ==
    /\ search_count <= amount_of_events
    /\ day_attempts <= Len(cards_to_schedule)
    /\ (pc \in {"card", "day_end"} /\ day_attempts > 0) =>
        LET checks == Len(last_search.checks)
            window == calculate_minutes_in_schedule_window(schedule)
        IN /\ checks >= 1
           /\ IF schedule.frequency_mode = FIXED_INTERVAL
              THEN schedule.interval_minutes # None =>
                      checks <= Ceil(window - MinStartOffset, schedule.interval_minutes[1])
              ELSE checks <= RandomAttempts

\* C26: every slot search ends within its bounded number of occupancy checks
\* (ceil((windowMinutes - 5) / interval_minutes) for the fixed-interval scan,
\* 3 for the random-time search), a run makes at most as many slot searches
\* as the policy's total, no step goes back to an earlier point of the run,
\* and every step lowers the number of steps the run can still take, so the
\* run terminates.
C26_BoundedSearches ==
    /\ [](SearchBounds /\ Rank >= 0)
    /\ [][Rank' < Rank]_vars

\* A run of four searches, as many as the policy's total, the last one with
\* as many checks as the scan's bound.
C26_Witness ==
    /\ pc = "done"
    /\ schedule.frequency_mode = FIXED_INTERVAL
    /\ amount_of_events = 4
    /\ search_count = amount_of_events
    /\ Len(last_search.checks) = 2
    /\ Len(last_search.checks) =
            Ceil(calculate_minutes_in_schedule_window(schedule) - MinStartOffset,
                 schedule.interval_minutes[1])

(* ----------------------- slot searches on their own --------------------- *)

\* The state a slot search leaves alone.
slot_vars == <<inputs, pending, result, plan_vars, dist_vars, cards_to_schedule,
               card_pos, events_created_for_day, events_created_count, day_attempts,
               found_total, search_count>>

SlotWindows == {[start_hour |-> 9, end_hour |-> 10], [start_hour |-> 9, end_hour |-> 11]}

SlotFrequencyChoices ==
    {Frequency(TIMES_PER_WEEK, Some(1), None, None, None),
     Frequency(TIMES_PER_DAY, None, Some(1), Some(2), None)}
    \cup {Frequency(FIXED_INTERVAL, None, None, None, iv) :
            iv \in {None, Some(30), Some(45), Some(60)}}

SlotSchedules ==
    {w @@ Policy(ScheduleUuid,
                 [scope |-> GLOBAL, category_uuid |-> None, flash_card_uuid |-> None],
                 days, f) :
        days \in AllowedDayLists, w \in SlotWindows, f \in SlotFrequencyChoices}

\* The minutes after the window's start that a search of the policy can
\* probe, by either strategy or by create_scheduled_event.
SlotProbeMinutes(schedule_) ==
    LET window == calculate_minutes_in_schedule_window(schedule_)
        interval == IF schedule_.frequency_mode = FIXED_INTERVAL
                    THEN IF schedule_.interval_minutes = None
                         THEN window ELSE schedule_.interval_minutes[1]
                    ELSE DefaultInterval
    IN (IF schedule_.frequency_mode = FIXED_INTERVAL
        THEN {o + k * interval :
                o \in RandInt(MinStartOffset, MaxStartOffset),
                k \in 0..(window \div interval)}
        ELSE RandInt(0, window - 1))
       \cup {(h - schedule_.start_hour) * MinutesPerHour + i * interval :
                h \in RandInt(schedule_.start_hour, schedule_.end_hour - 1),
                i \in 0..((window \div interval) - 1)}

\* Events of another policy on the given minutes after the window's start.
OccupiedAt(schedule_, dates, minutes) ==
    {[uuid |-> 0 - (d * MinutesPerDay + m),
      schedule_uuid |-> OtherScheduleUuid,
      flash_card_uuid |-> 1,
      scheduled_datetime |-> Combine(d, schedule_.start_hour) + m,
      status |-> Statuses[(m % 3) + 1]] :
        d \in dates, m \in minutes}

InitSlot ==
    /\ today \in {0, 2}
    /\ target_date \in {today, today + 1}
    /\ cards = <<>>
    /\ schedule \in SlotSchedules
    /\ db \in {{}} \cup
              {OccupiedAt(schedule, {today, target_date},
                          {m \in SlotProbeMinutes(schedule) : a <= m /\ m <= b}) :
                  a \in SlotProbeMinutes(schedule), b \in SlotProbeMinutes(schedule)}
    /\ pc = "slot"
    /\ pending = <<>>
    /\ result = NoResult
    /\ valid_cards = <<>>
    /\ amount_of_events = 0
    /\ times_per_days = None
    /\ selected_cards = <<>>
    /\ distribution = <<>>
    /\ day_dates = <<>>
    /\ day_pos = 1
    /\ card_index = 0
    /\ scheduled_events = <<>>
    /\ cards_to_schedule = <<>>
    /\ card_pos = 1
    /\ events_created_for_day = <<>>
    /\ events_created_count = 0
    /\ day_attempts = 0
    /\ last_search = NoSlot(<<>>)
    /\ found_total = 0
    /\ search_count = 0
    /\ runs = <<>>
    /\ NoPass

\* _schedule_random_time_event, the strategy of the modes without interval.
RandomTimeSearch ==
    /\ pc = "slot"
    /\ schedule.frequency_mode # FIXED_INTERVAL
    /\ \E r \in schedule_random_time_event(db, pending, schedule, target_date) :
            last_search' = r
    /\ pc' = "random_searched"
    /\ UNCHANGED <<slot_vars, target_date>>

\* _schedule_fixed_interval_event, the strategy of the fixed-interval mode.
FixedIntervalSearch ==
    /\ pc = "slot"
    /\ schedule.frequency_mode = FIXED_INTERVAL
    /\ \E r \in schedule_fixed_interval_event(db, pending, schedule, target_date) :
            last_search' = r
    /\ pc' = "fixed_searched"
    /\ UNCHANGED <<slot_vars, target_date>>

\* create_scheduled_event, called with a target date or without one.
CreateScheduledEvent ==
    /\ pc = "slot"
    /\ \E target_date_arg \in {None, Some(target_date)} :
        /\ target_date' = IF target_date_arg # None THEN target_date_arg[1] ELSE today
        /\ \E r \in create_scheduled_event(db, pending, schedule, target_date_arg, today) :
                last_search' = r
    /\ pc' = "created"
    /\ UNCHANGED slot_vars

NextSlot ==
    \/ RandomTimeSearch
    \/ FixedIntervalSearch
    \/ CreateScheduledEvent

SlotSpec == InitSlot /\ [][NextSlot]_vars

Occupied(t) == \E e \in db : e.scheduled_datetime = t

WindowStart == Combine(target_date, schedule.start_hour)

\* Every check before the last found its datetime occupied; the search found
\* a slot exactly when the last check found its datetime free.
FirstFreeOf(r) ==
    /\ \A k \in 1..(Len(r.checks) - 1) : Occupied(r.checks[k])
    /\ r.found =>
        /\ r.checks # <<>>
        /\ r.scheduled_datetime = r.checks[Len(r.checks)]
        /\ ~Occupied(r.scheduled_datetime)
    /\ ~r.found => \A k \in DOMAIN r.checks : Occupied(r.checks[k])

\* C23: the random-time strategy makes at most 3 occupancy checks, each at
\* the window's start plus an offset in [0, windowMinutes) on the target
\* date; it returns an Occurrence at the first checked datetime that is
\* unoccupied, and NoSlot exactly when all 3 checked datetimes are occupied.
C23_RandomTimeThreeChecks ==
    pc = "random_searched" =>
        LET r == last_search
            window == calculate_minutes_in_schedule_window(schedule)
        IN /\ Len(r.checks) \in 1..RandomAttempts
           /\ \A k \in DOMAIN r.checks :
                /\ r.checks[k] - WindowStart \in 0..(window - 1)
                /\ DateOf(r.checks[k]) = target_date
           /\ FirstFreeOf(r)
           /\ ~r.found <=> /\ Len(r.checks) = RandomAttempts
                           /\ \A k \in DOMAIN r.checks : Occupied(r.checks[k])

\* The third check found a free minute after two occupied ones.
C23_Witness ==
    /\ pc = "random_searched"
    /\ last_search.found
    /\ Len(last_search.checks) = 3
    /\ last_search.checks[1] # last_search.checks[3]

\* C24: for a start offset o drawn from [5, 25] the fixed-interval strategy
\* checks window-start + o + k * interval_minutes for k = 0, 1, 2, ... in
\* increasing order while the offset is below windowMinutes; it returns an
\* Occurrence at the first unoccupied one, and NoSlot exactly when every such
\* datetime of the window is occupied.
C24_FixedIntervalScanOrder ==
    (pc = "fixed_searched" /\ schedule.interval_minutes # None) =>
        LET r == last_search
            interval == schedule.interval_minutes[1]
            window == calculate_minutes_in_schedule_window(schedule)
            o == r.checks[1] - WindowStart
        IN /\ r.checks # <<>>
           /\ o \in MinStartOffset..MaxStartOffset
           /\ \A k \in DOMAIN r.checks :
                /\ r.checks[k] = WindowStart + o + (k - 1) * interval
                /\ o + (k - 1) * interval < window
           /\ FirstFreeOf(r)
           /\ ~r.found <=> /\ o + Len(r.checks) * interval >= window
                           /\ \A k \in DOMAIN r.checks : Occupied(r.checks[k])

\* The scan passed two occupied datetimes and returned the third.
C24_Witness ==
    /\ pc = "fixed_searched"
    /\ schedule.interval_minutes # None
    /\ last_search.found
    /\ Len(last_search.checks) = 3
    /\ Occupied(last_search.checks[2])

\* C25: when the policy's interval_minutes is absent the fixed-interval
\* strategy returns NoSlot and creates no Occurrence, whatever the occupancy
\* of the window.
C25_AbsentIntervalNoSlot ==
    (pc = "fixed_searched" /\ schedule.interval_minutes = None) =>
        ~last_search.found

\* The weekday of the date create_scheduled_event settled on is allowed.
TargetDayAllowed ==
    DayNames[weekday(target_date) + 1] \in Range(allowed_days_of(schedule))

\* C27: every event create_scheduled_event returns is dated on target_date,
\* whose weekday is an allowed day, at a time in [start_hour:00, end_hour:00)
\* that was unoccupied when checked; when target_date's weekday is not
\* allowed it returns None.
C27_CreatedEventMeetsConstraints ==
    pc = "created" =>
        /\ last_search.found =>
            /\ DateOf(last_search.scheduled_datetime) = target_date
            /\ TargetDayAllowed
            /\ TimeOf(last_search.scheduled_datetime) >=
                    schedule.start_hour * MinutesPerHour
            /\ TimeOf(last_search.scheduled_datetime) <
                    schedule.end_hour * MinutesPerHour
            /\ ~Occupied(last_search.scheduled_datetime)
        /\ ~TargetDayAllowed => ~last_search.found

(* ------------------------ two runs, one database ------------------------ *)

\* The state of one planning run in RaceSpec is in runs; the rest is unused.
race_vars == <<today, cards, pending, schedule, pc, result, plan_vars, dist_vars,
               day_vars, found_total, search_count, pass_vars>>

Runs == {1, 2}

\* Policies with overlapping windows, all allowed on Monday: two for the
\* first run, two for the second.
RacePolicies ==
    [Runs ->
        {[start_hour |-> w.start_hour, end_hour |-> w.end_hour] @@
            Policy("R", [scope |-> GLOBAL, category_uuid |-> None, flash_card_uuid |-> None],
                   <<"Mon">>, f) :
            w \in SlotWindows,
            f \in {Frequency(TIMES_PER_DAY, None, Some(2), Some(2), None),
                   Frequency(FIXED_INTERVAL, None, None, None, Some(30))}}]

\* A run at the entry of schedule_events_for_day, with its own session.
Run(p, schedule_, target_date_, count) ==
    [schedule |-> [schedule_ EXCEPT !.uuid = IF p = 1 THEN "R1" ELSE "R2"],
     target_date |-> target_date_,
     cards_left |-> count,
     pending |-> <<>>,
     pc |-> "search",
     steps |-> 0,
     created |-> <<>>,
     checked_at |-> <<>>,
     committed_at |-> 0]

InitRace ==
    /\ today = 0
    /\ cards = <<>>
    /\ \E policies \in RacePolicies, counts \in [Runs -> 1..2] :
        /\ runs = [p \in Runs |-> Run(p, policies[p], today + DaysPerWeek, counts[p])]
        /\ db \in {OccupiedAt(policies[1], {today + DaysPerWeek}, minutes) :
                    minutes \in SUBSET {0, MinStartOffset}}
    /\ schedule = WeeklyPolicy
    /\ pc = "race"
    /\ pending = <<>>
    /\ result = NoResult
    /\ valid_cards = <<>>
    /\ amount_of_events = 0
    /\ times_per_days = None
    /\ selected_cards = <<>>
    /\ distribution = <<>>
    /\ day_dates = <<>>
    /\ day_pos = 1
    /\ card_index = 0
    /\ scheduled_events = <<>>
    /\ cards_to_schedule = <<>>
    /\ target_date = 0
    /\ card_pos = 1
    /\ events_created_for_day = <<>>
    /\ events_created_count = 0
    /\ day_attempts = 0
    /\ last_search = NoSlot(<<>>)
    /\ found_total = 0
    /\ search_count = 0
    /\ NoPass

\* The position of a step in the order of all steps of both runs.
Stamp == runs[1].steps + runs[2].steps + 1

\* Variant: the run's search does not read the table.
RunSearch_unchecked(p) ==
    LET run == runs[p]
    IN /\ run.pc = "search"
       /\ \E r \in scheduler_func({}, run.pending, run.schedule, run.target_date) :
            runs' = [runs EXCEPT ![p] =
                IF r.found
                THEN LET new_event == ScheduledEvent(10 * p + Len(run.created) + 1,
                                                     run.schedule, 1, r.scheduled_datetime)
                     IN [run EXCEPT !.pending = Append(@, new_event),
                                    !.created = Append(@, new_event),
                                    !.checked_at = Append(@, Stamp),
                                    !.cards_left = @ - 1,
                                    !.pc = IF run.cards_left = 1 THEN "commit" ELSE "search",
                                    !.steps = @ + 1]
                ELSE [run EXCEPT !.pc = "commit", !.steps = @ + 1]]
       /\ UNCHANGED <<db, race_vars>>

\* One iteration of the loop of schedule_events_for_day in run p: the slot
\* search reads the table, and the new event is added to the run's session.
RunSearch(p) ==
    LET run == runs[p]
    IN /\ run.pc = "search"
       /\ \E r \in scheduler_func(db, run.pending, run.schedule, run.target_date) :
            runs' = [runs EXCEPT ![p] =
                IF r.found
                THEN LET new_event == ScheduledEvent(10 * p + Len(run.created) + 1,
                                                     run.schedule, 1, r.scheduled_datetime)
                     IN [run EXCEPT !.pending = Append(@, new_event),
                                    !.created = Append(@, new_event),
                                    !.checked_at = Append(@, Stamp),
                                    !.cards_left = @ - 1,
                                    !.pc = IF run.cards_left = 1 THEN "commit" ELSE "search",
                                    !.steps = @ + 1]
                ELSE [run EXCEPT !.pc = "commit", !.steps = @ + 1]]
       /\ UNCHANGED <<db, race_vars>>

\* The caller of run p commits its session: the events it added become rows
\* of the table.
RunCommit(p) ==
    LET run == runs[p]
    IN /\ run.pc = "commit"
       /\ db' = db \cup Range(run.pending)
       /\ runs' = [runs EXCEPT ![p] = [run EXCEPT !.pending = <<>>,
                                                  !.committed_at = Stamp,
                                                  !.pc = "finished",
                                                  !.steps = @ + 1]]
       /\ UNCHANGED race_vars

NextRace == \E p \in Runs : RunSearch(p) \/ RunCommit(p)

RaceSpec == InitRace /\ [][NextRace]_vars

\* C21: when two planning runs over policies with overlapping windows are
\* interleaved, two Occurrences of different runs at the identical datetime
\* arise only from the race, each run having read the datetime as free before
\* the other recorded its Occurrence, and never on a datetime recorded before
\* the check; the state with the two Occurrences is reachable.
C21_DuplicatesOnlyByRace ==
    \A p \in Runs : \A i \in DOMAIN runs[p].created :
        /\ \A e \in db :
                (e.schedule_uuid = OtherScheduleUuid) =>
                    e.scheduled_datetime # runs[p].created[i].scheduled_datetime
        /\ \A q \in Runs \ {p} : \A j \in DOMAIN runs[q].created :
                (runs[q].created[j].scheduled_datetime =
                        runs[p].created[i].scheduled_datetime)
                    => \/ runs[q].committed_at = 0
                       \/ runs[p].checked_at[i] < runs[q].committed_at

\* Both runs have recorded their Occurrences, and two of them, one of each
\* run, have the identical datetime.
C21_Witness ==
    /\ \A p \in Runs : runs[p].pc = "finished"
    /\ \E e1, e2 \in db :
        /\ e1.schedule_uuid = "R1"
        /\ e2.schedule_uuid = "R2"
        /\ e1.scheduled_datetime = e2.scheduled_datetime
    /\ runs[1].schedule.end_hour # runs[2].schedule.end_hour

====
